---- MODULE Spec2Model ----
(***************************************************************************)
(* Kaichi, the self-improving code-generation agent of wiseflow.           *)
(*                                                                         *)
(* The module models the components of src/kaichi as state machines:       *)
(*   - the Curriculum Agent's task progress  (agents/curriculum.py),       *)
(*   - the Sandbox Runner ProjectEnv         (env/bridge.py),              *)
(*   - the Skill Manager and the vector dataset it talks to                *)
(*                         (agents/skill.py, vectordb/dify_datasets.py),   *)
(*   - the Action Agent's code generation and entry-point rewrite          *)
(*                         (agents/action.py),                             *)
(*   - the Critic Agent                      (agents/critic.py),           *)
(*   - the Orchestrator                      (kaichi.py).                  *)
(* Each component has its own specifications over the same variables, in   *)
(* the section "Specifications"; the properties follow them.               *)
(***************************************************************************)
EXTENDS Integers, Sequences, FiniteSets, Bags, TLC

VARIABLES
    \* ---- Curriculum Agent (agents/curriculum.py)
    task_progress,    \* CurriculumAgent.task_progress: a TaskProgress
    progress_json,    \* <ckpt>/curriculum/progress.json: NoFile or a dict
    clock,            \* number of time.time() readings taken so far
    progress_call,    \* the last update_exploration_progress call and how it ended
    \* ---- Sandbox Runner (env/bridge.py)
    has_reset,        \* ProjectEnv.has_reset
    temp_dir,         \* ProjectEnv.temp_dir: None or the id of a directory
    execution_log,    \* ProjectEnv.execution_log
    live_dirs,        \* temporary directories that exist on disk
    dir_links,        \* the directory temp_dir names holds a symbolic link
                      \* to a directory
    next_dir,         \* id the next tempfile.mkdtemp() hands out
    env_call,         \* the last ProjectEnv call and how it ended
    \* ---- Skill Manager (agents/skill.py) and its dataset
    skills,           \* SkillManager.skills, the in-memory dictionary
    skills_json,      \* <ckpt>/skill/skills.json: NoFile or a dict
    documents,        \* the documents of the vector dataset, in enumeration order
    next_doc_id,      \* id the dataset gives the next document
    code_dir,         \* <ckpt>/skill/code: file name -> content
    description_dir,  \* <ckpt>/skill/description: file name -> content
    skill_call,       \* the last add_new_skill call and how it ended (none
                      \* once another call of the Skill Manager has moved on)
    skill_cache,      \* SkillManager.skill_cache.skills: name -> skill data
    store_call,       \* the last retrieve_skills / get_skill / list_skills call
    skill_waiting,    \* the bag of add_new_skill and retrieve_skills calls
                      \* suspended at an await, each with its local variables
    \* ---- Action Agent (agents/action.py)
    llm_code,         \* what the LLM answers to the code-generation prompt
    llm_rename,       \* what the LLM answers to the renaming prompt
    action_call,      \* the last generate_code / process_ai_message call
    \* ---- Critic Agent (agents/critic.py)
    critic_mode,      \* CriticConfig.mode
    critic_config,    \* CriticConfig.max_retries and the max_size the cache
                      \* was made with (CriticConfig.cache_size)
    critic_cache,     \* CriticAgent.cache, entries in insertion order
    critic_call,      \* the last check_task_success call and how it ended
    critic_waiting,   \* the bag of check_task_success calls suspended at the
                      \* LLM call
    \* ---- Curriculum Agent: task proposal
    propose_call,     \* the last propose_next_task call and how it ended
    \* ---- Orchestrator (kaichi.py)
    agent_max_retries, \* AgentConfig.max_retries
    kaichi_init,      \* how Kaichi(config) ended
    learn_entry,      \* the method of Kaichi the main task has called:
                      \* "learn", "rollout" or "reset" ("none" before)
    learn_pc,         \* where that call is. It runs at "loop" (the loop
                      \* test of learn), "rollout" (rollout about to call
                      \* step) and "finish" (learn has the rollout's info);
                      \* it is suspended at "task" (in propose_next_task or
                      \* get_task_context), "retrieve" (reset in
                      \* retrieve_skills), "step" (rollout in step) and
                      \* "add" (learn in add_new_skill); it is not made at
                      \* "idle" and over at "returned" and "raised"
    learn_task,       \* the variable task of learn
    learn_given,      \* the task argument learn was called with
    learn_maxloop,    \* the maxloop argument
    learn_loop,       \* the variable loop of learn
    learn_info,       \* the variable info of learn and rollout
    learn_result,     \* what learn returned
    learn_events,     \* one entry per loop iteration begun, in order
    current_task,     \* AgentState.current_task
    state_context,    \* AgentState.context
    iteration,        \* AgentState.iteration
    success_count,    \* AgentState.success_count
    failure_count,    \* AgentState.failure_count
    metrics_steps,    \* AgentMetrics.steps
    messages,         \* Kaichi.messages
    artifacts,        \* the step_NNN files of the current task directory
    rollout_steps,    \* the code and critique of the steps of the current
                      \* rollout that returned a verdict, in order
    step_call,        \* the last step call that ended and what it returned
    step_waiting,     \* the bag of step calls suspended at an await, each
                      \* with its local variables
    \* ---- A cache of an agent (SkillCache, ActionCache, CriticCache, QAManager)
    cache_entries,    \* its dicts, one entry per key, in insertion order
    cache_max_size,   \* its max_size (cache_size in QAManager)
    cache_clock,      \* the latest time.time() reading, counted in readings
    cache_call        \* the last call on the cache and what it found

progress_vars == <<task_progress, progress_json, clock, progress_call>>
sandbox_vars  == <<has_reset, temp_dir, execution_log, live_dirs, dir_links,
                   next_dir, env_call>>
skill_vars    == <<skills, skills_json, documents, next_doc_id, code_dir,
                   description_dir, skill_call, skill_cache, store_call,
                   skill_waiting>>
action_vars   == <<llm_code, llm_rename, action_call>>
critic_vars   == <<critic_mode, critic_config, critic_cache, critic_call,
                   critic_waiting>>
proposal_vars == <<propose_call>>
learn_vars == <<agent_max_retries, kaichi_init, learn_entry, learn_pc,
                learn_task, learn_given, learn_maxloop, learn_loop, learn_info,
                learn_result, learn_events, current_task, state_context,
                iteration, success_count, failure_count, metrics_steps,
                messages, artifacts, rollout_steps, step_call, step_waiting>>
\* What Kaichi(config) fixes, the arguments and counters of learn, and the
\* fields reset and step assign.
agent_config == <<agent_max_retries, kaichi_init>>
learn_locals == <<learn_task, learn_given, learn_maxloop, learn_loop,
                  learn_result, learn_events, success_count, failure_count>>
agent_state  == <<current_task, state_context, iteration, metrics_steps,
                  messages, artifacts, rollout_steps>>
cache_vars == <<cache_entries, cache_max_size, cache_clock, cache_call>>
kaichi_vars == <<learn_vars, cache_vars>>
vars == <<progress_vars, sandbox_vars, skill_vars, action_vars, critic_vars,
          proposal_vars, kaichi_vars>>

\* A file that does not exist, a file holding data, a call that has not happened.
NoFile == [exists |-> FALSE]
File(data) == [exists |-> TRUE, data |-> data]
NoCall == [op |-> "none"]

\* The empty dict.
EmptyDict == << >>

\* d with d[k] = v (Python's d[k] = v on a dict).
DictSet(d, k, v) == [x \in (DOMAIN d) \cup {k} |-> IF x = k THEN v ELSE d[x]]

\* list.remove(x): the list without the first occurrence of x.
RECURSIVE ListRemove(_, _)
ListRemove(s, x) ==
    IF s = << >> THEN << >>
    ELSE IF Head(s) = x THEN Tail(s)
    ELSE <<Head(s)>> \o ListRemove(Tail(s), x)

\* x in list
InList(x, s) == \E i \in 1..Len(s) : s[i] = x

(***************************************************************************)
(* Curriculum Agent: TaskProgress and update_exploration_progress          *)
(***************************************************************************)

\* The tasks update_exploration_progress is called with.
Tasks == {"t1", "t2", "t3"}

\* TaskProgress.__init__
NewTaskProgress ==
    [completed_tasks |-> << >>, failed_tasks |-> << >>, last_updated |-> EmptyDict]

\* A faulty add_completed_task that forgets to take the task out of failed_tasks.
AddCompletedTaskKeepFailed(p, task, now) ==
    IF ~InList(task, p.completed_tasks)
    THEN [p EXCEPT !.completed_tasks = Append(@, task),
                   !.last_updated = DictSet(@, task, now)]
    ELSE p

\* TaskProgress.add_completed_task
AddCompletedTask(p, task, now) ==
    LET p1 == IF ~InList(task, p.completed_tasks)
              THEN [p EXCEPT !.completed_tasks = Append(@, task),
                             !.last_updated = DictSet(@, task, now)]
              ELSE p
    IN  IF InList(task, p1.failed_tasks)
        THEN [p1 EXCEPT !.failed_tasks = ListRemove(@, task)]
        ELSE p1

\* A faulty add_failed_task that does not look at completed_tasks.
AddFailedTaskIgnoreCompleted(p, task, now) ==
    IF ~InList(task, p.failed_tasks)
    THEN [p EXCEPT !.failed_tasks = Append(@, task),
                   !.last_updated = DictSet(@, task, now)]
    ELSE p

\* TaskProgress.add_failed_task
AddFailedTask(p, task, now) ==
    IF ~InList(task, p.failed_tasks) /\ ~InList(task, p.completed_tasks)
    THEN [p EXCEPT !.failed_tasks = Append(@, task),
                   !.last_updated = DictSet(@, task, now)]
    ELSE p

\* TaskProgress.to_dict
ProgressToDict(p) ==
    [completed_tasks |-> p.completed_tasks,
     failed_tasks    |-> p.failed_tasks,
     last_updated    |-> p.last_updated]

\* How _save_state ends: both files written, the dump of progress.json
\* failed, or progress.json was written and the dump of qa_pairs.json failed.
SaveOutcomes == {"saved", "progress_failed", "qa_failed"}

\* CurriculumAgent.update_exploration_progress(info) with info = {task, success}.
\* save is how _save_state ends; when a dump fails the exception is re-raised
\* after the in-memory progress has changed, and after progress.json has
\* when it was the second dump that failed.
UpdateExplorationProgress(task, success, save) ==
    LET now == clock + 1
        p   == IF success THEN AddCompletedTask(task_progress, task, now)
                          ELSE AddFailedTask(task_progress, task, now)
    IN  /\ task_progress' = p
        /\ clock' = IF p.last_updated # task_progress.last_updated THEN now ELSE clock
        /\ progress_json' = IF save # "progress_failed" THEN File(ProgressToDict(p))
                            ELSE progress_json
        /\ progress_call' =
               [op |-> "update_exploration_progress",
                task |-> task, success |-> success,
                was_failed |-> InList(task, task_progress.failed_tasks),
                was_completed |-> InList(task, task_progress.completed_tasks),
                raised |-> save # "saved"]

\* data.get(key, default) on the dict read from a JSON file.
DataGet(data, key, default) == IF key \in DOMAIN data THEN data[key] ELSE default

\* TaskProgress.from_dict of the class the Curriculum Agent uses.
ProgressFromDict(data) ==
    [completed_tasks |-> DataGet(data, "completed_tasks", << >>),
     failed_tasks    |-> DataGet(data, "failed_tasks", << >>),
     last_updated    |-> DataGet(data, "last_updated", EmptyDict)]

\* A new CurriculumAgent on the same checkpoint directory: _init_system makes
\* an empty TaskProgress and _load_state replaces it by what progress.json
\* holds; without the file the exception is logged and the empty one stays.
LoadState ==
    /\ task_progress' = IF progress_json.exists
                        THEN ProgressFromDict(progress_json.data)
                        ELSE NewTaskProgress
    /\ progress_call' = [op |-> "_load_state", loaded |-> progress_json.exists]
    /\ UNCHANGED <<progress_json, clock>>

\* TaskProgress.__init__ of agents/task.py, the class with the counters.
NewCountedTaskProgress ==
    [completed_tasks |-> << >>, failed_tasks |-> << >>, last_updated |-> EmptyDict,
     iteration_count |-> 0, success_count |-> 0, failure_count |-> 0]

\* Its add_completed_task
CountedAddCompletedTask(p, task, now) ==
    LET p1 == IF ~InList(task, p.completed_tasks)
              THEN [p EXCEPT !.completed_tasks = Append(@, task),
                             !.last_updated = DictSet(@, task, now),
                             !.success_count = @ + 1]
              ELSE p
    IN  IF InList(task, p1.failed_tasks)
        THEN [p1 EXCEPT !.failed_tasks = ListRemove(@, task)]
        ELSE p1

\* Its add_failed_task
CountedAddFailedTask(p, task, now) ==
    IF ~InList(task, p.failed_tasks) /\ ~InList(task, p.completed_tasks)
    THEN [p EXCEPT !.failed_tasks = Append(@, task),
                   !.last_updated = DictSet(@, task, now),
                   !.failure_count = @ + 1]
    ELSE p

\* A call of add_completed_task (success) or add_failed_task on it.
CountedCall(task, success) ==
    LET now == clock + 1
        p   == IF success THEN CountedAddCompletedTask(task_progress, task, now)
                          ELSE CountedAddFailedTask(task_progress, task, now)
    IN  /\ task_progress' = p
        /\ clock' = IF p.last_updated # task_progress.last_updated THEN now ELSE clock
        /\ progress_call' =
               [op |-> IF success THEN "add_completed_task" ELSE "add_failed_task",
                task |-> task,
                was_failed |-> InList(task, task_progress.failed_tasks)]
        /\ UNCHANGED progress_json

\* Largest iteration_count the model follows.
MaxIterationCount == 2

\* Its increment_iteration
IncrementIteration ==
    /\ task_progress' = [task_progress EXCEPT !.iteration_count = @ + 1]
    /\ progress_call' = [op |-> "increment_iteration", task |-> "",
                         was_failed |-> FALSE]
    /\ UNCHANGED <<progress_json, clock>>

InitCountedProgress ==
    /\ task_progress = NewCountedTaskProgress
    /\ progress_json = NoFile
    /\ clock = 0
    /\ progress_call = NoCall

InitProgress ==
    /\ task_progress = NewTaskProgress
    /\ progress_json = NoFile
    /\ clock = 0
    /\ progress_call = NoCall

(***************************************************************************)
(* Strings that the code builds by concatenation are sequences of          *)
(* characters or of pieces: skill names, file names, document ids, messages. *)
(***************************************************************************)

Digit == <<"0", "1", "2", "3", "4", "5", "6", "7", "8", "9">>

\* str(i) for a natural number i.
RECURSIVE DecStr(_)
DecStr(i) ==
    IF i < 10 THEN <<Digit[i + 1]>>
    ELSE DecStr(i \div 10) \o <<Digit[(i % 10) + 1]>>

\* str(i) as one string, for the messages that are compared as a whole.
RECURSIVE StrOf(_)
StrOf(i) ==
    IF i < 10 THEN Digit[i + 1]
    ELSE StrOf(i \div 10) \o Digit[(i % 10) + 1]

(***************************************************************************)
(* Sandbox Runner: ProjectEnv                                              *)
(***************************************************************************)

\* Longest execution log the model follows.
MaxLog == 3
\* Number of temporary directories the model lets mkdtemp hand out.
MaxDirs == 2

\* ProjectEnv.temp_dir when it is None; directories are numbered from 1.
NoDir == 0

\* The code strings step is called with.
Codes == {"c1", "c2"}

\* What the child process does with a script: it exits with a return code
\* (negative when a signal killed it) and its two streams, it runs past the
\* timeout, or it writes bytes that subprocess.run(text=True) cannot decode.
ChildRuns ==
    {[kind |-> "exit", returncode |-> 0, stdout |-> "hi\n", stderr |-> ""],
     [kind |-> "exit", returncode |-> 0, stdout |-> "", stderr |-> ""],
     [kind |-> "exit", returncode |-> 1, stdout |-> "", stderr |-> "ZeroDivisionError"],
     [kind |-> "exit", returncode |-> -9, stdout |-> "", stderr |-> ""],
     [kind |-> "timeout"],
     [kind |-> "undecodable"]}

\* What the child leaves of its working directory, which is temp_dir: files
\* and directories only, a symbolic link to a directory among them, or
\* nothing, the directory itself removed.
Leaves == {"plain", "link", "gone"}

\* ProjectEnv.timeout as ProjectEnv() and AgentConfig() set it.
EnvTimeout == 5

\* f"Code execution exceeded timeout of {self.timeout} seconds."
TimeoutMessage ==
    "Code execution exceeded timeout of " \o StrOf(EnvTimeout) \o " seconds."

\* A faulty timeout state that reports the signal that killed the child.
TimeoutStateKilled == [output |-> "", error |-> TimeoutMessage, return_code |-> -9]

\* The state returned by the timeout branch of step.
TimeoutState == [output |-> "", error |-> TimeoutMessage, return_code |-> -1]

\* A faulty reward that rewards every non-negative return code.
RewardNonNegative(return_code) == IF return_code >= 0 THEN 1 ELSE -1

\* The reward of a finished child: 1.0 if return_code == 0 else -1.0.
Reward(return_code) == IF return_code = 0 THEN 1 ELSE -1

\* self.temp_dir and os.path.exists(self.temp_dir)
TempDirExists == temp_dir # NoDir /\ temp_dir \in live_dirs

\* ProjectEnv._cleanup_temp_dir. os.walk lists a symbolic link to a
\* directory among the directories and os.rmdir of it raises
\* NotADirectoryError. The entries before it in the listing are removed by
\* then: when its target was one of them the link dangles, os.walk lists it
\* among the files the next time and the next cleanup removes it
\* (still_linked = FALSE). The order of the listing is the file system's.
\* The result is <<raised, temp_dir', live_dirs', dir_links'>>.
CleanupTempDir(still_linked) ==
    IF ~TempDirExists THEN <<FALSE, temp_dir, live_dirs, dir_links>>
    ELSE IF dir_links THEN <<TRUE, temp_dir, live_dirs, still_linked>>
    ELSE <<FALSE, NoDir, live_dirs \ {temp_dir}, FALSE>>

\* ProjectEnv.reset
EnvReset(still_linked) ==
    /\ next_dir <= MaxDirs
    /\ LET cleaned == IF temp_dir # NoDir THEN CleanupTempDir(still_linked)
                      ELSE <<FALSE, temp_dir, live_dirs, dir_links>>
       IN  IF cleaned[1]
           THEN /\ env_call' = [op |-> "reset", kind |-> "raised",
                                exc |-> "NotADirectoryError"]
                /\ dir_links' = cleaned[4]
                /\ UNCHANGED <<has_reset, temp_dir, execution_log, live_dirs,
                               next_dir>>
           ELSE /\ live_dirs' = cleaned[3] \cup {next_dir}
                /\ temp_dir' = next_dir
                /\ dir_links' = FALSE
                /\ next_dir' = next_dir + 1
                /\ execution_log' = << >>
                /\ has_reset' = TRUE
                /\ env_call' = [op |-> "reset", kind |-> "returned", exc |-> ""]

\* ProjectEnv.step(code), the child behaving as run and leaving its working
\* directory as leaves says.
EnvStep(code, run, leaves) ==
    IF ~has_reset
    THEN /\ env_call' = [op |-> "step", kind |-> "raised", exc |-> "RuntimeError",
                         code |-> code, had_reset |-> has_reset]
         /\ UNCHANGED <<has_reset, temp_dir, execution_log, live_dirs, dir_links,
                        next_dir>>
    ELSE IF ~TempDirExists
    THEN \* open(code_file, "w") in a directory that is gone
         /\ env_call' = [op |-> "step", kind |-> "raised",
                         exc |-> "FileNotFoundError", code |-> code,
                         had_reset |-> has_reset]
         /\ UNCHANGED <<has_reset, temp_dir, execution_log, live_dirs, dir_links,
                        next_dir>>
    ELSE
      /\ Len(execution_log) < MaxLog
      /\ UNCHANGED <<has_reset, temp_dir, next_dir>>
      /\ live_dirs' = IF leaves = "gone" THEN live_dirs \ {temp_dir} ELSE live_dirs
      /\ dir_links' = (leaves = "link")
      /\ CASE run.kind = "exit" ->
                LET state == [output |-> run.stdout, error |-> run.stderr,
                              return_code |-> run.returncode]
                IN  /\ execution_log' = Append(execution_log,
                            [code |-> code, output |-> run.stdout,
                             error |-> run.stderr, return_code |-> run.returncode])
                    /\ env_call' = [op |-> "step", kind |-> "returned", code |-> code,
                                    had_reset |-> has_reset, state |-> state,
                                    reward |-> Reward(run.returncode)]
           [] run.kind = "timeout" ->
                LET state == TimeoutState
                IN  /\ execution_log' = Append(execution_log,
                            [code |-> code, output |-> "",
                             error |-> TimeoutMessage, return_code |-> -1])
                    /\ env_call' = [op |-> "step", kind |-> "returned", code |-> code,
                                    had_reset |-> has_reset, state |-> state,
                                    reward |-> -1]
           [] run.kind = "undecodable" ->
                /\ execution_log' = execution_log
                /\ env_call' = [op |-> "step", kind |-> "raised",
                                exc |-> "UnicodeDecodeError", code |-> code,
                                had_reset |-> has_reset]

\* ProjectEnv.close
EnvClose(still_linked) ==
    LET cleaned == CleanupTempDir(still_linked)
    IN  IF cleaned[1]
        THEN /\ env_call' = [op |-> "close", kind |-> "raised",
                             exc |-> "NotADirectoryError"]
             /\ dir_links' = cleaned[4]
             /\ UNCHANGED <<has_reset, temp_dir, execution_log, live_dirs, next_dir>>
        ELSE /\ temp_dir' = cleaned[2]
             /\ live_dirs' = cleaned[3]
             /\ dir_links' = cleaned[4]
             /\ has_reset' = FALSE
             /\ env_call' = [op |-> "close", kind |-> "returned", exc |-> ""]
             /\ UNCHANGED <<execution_log, next_dir>>

InitSandbox ==
    /\ has_reset = FALSE
    /\ temp_dir = NoDir
    /\ execution_log = << >>
    /\ live_dirs = {}
    /\ dir_links = FALSE
    /\ next_dir = 1
    /\ env_call = NoCall

(***************************************************************************)
(* The vector dataset (vectordb/dify_datasets.py). A document has the id   *)
(* the dataset gave it and the name and text it was created with.          *)
(***************************************************************************)

\* The coroutines that call an agent; each awaits the call it makes, so that
\* an agent has one call in flight for each of them at most.
Callers == {"co1", "co2"}

\* list_documents' default limit.
PageLimit == 20

\* The id of the n-th document the dataset creates: a string no skill
\* name (an identifier) can equal.
DocId(n) == <<"d", "o", "c", "-">> \o DecStr(n)

\* create_document_by_text(dataset_id, name, text)
CreateDocumentByText(docs, id, name, text) ==
    Append(docs, [id |-> id, name |-> name, text |-> text])

\* delete_document(dataset_id, document_id): DELETE .../documents/{document_id}
DeleteDocument(docs, document_id) ==
    SelectSeq(docs, LAMBDA d : d.id # document_id)

\* list_documents(dataset_id, page, limit): the "data" of one page
ListDocuments(docs, page, limit) ==
    SubSeq(docs, (page - 1) * limit + 1,
           IF page * limit < Len(docs) THEN page * limit ELSE Len(docs))

(***************************************************************************)
(* Skill Manager: add_new_skill                                            *)
(***************************************************************************)

\* Names of the skills under study: one name and two names that read as
\* versions of it.
FreeNames == {<<"h">>, <<"h", "V", "2">>, <<"h", "V", "3">>}

\* A library is filled with FillMin to FillMax further, unrelated skills
\* before the names under study are added to it.
FillMin == 18
FillMax == 18
\* Documents the dataset may hold beyond the keys of skills.json when an
\* add_new_skill call starts, the calls in flight counted with a document
\* each.
MaxExtraDocs == 1

Letter == <<"a", "b", "c", "d", "e", "f", "g", "h", "i", "j", "k", "l", "m",
            "n", "o", "p", "q", "r", "s", "t", "u", "v", "w", "x", "y", "z">>

\* The k-th unrelated skill name.
Filler(k) == <<"s", Letter[((k - 1) \div 26) + 1], Letter[((k - 1) % 26) + 1]>>

\* The JSON-Schema text generate_skill_description returns.
Description == "schema"

\* f"{program_name}V{i}"
VersionedName(program_name, i) == program_name \o <<"V">> \o DecStr(i)

\* f"{name}.py" and f"{name}.txt"
PyFile(name)  == name \o <<".", "p", "y">>
TxtFile(name) == name \o <<".", "t", "x", "t">>

\* i = 2; while f"{program_name}V{i}.py" in os.listdir(code): i += 1
RECURSIVE FirstFreeVersion(_, _, _)
FirstFreeVersion(program_name, i, listing) ==
    IF PyFile(VersionedName(program_name, i)) \in listing
    THEN FirstFreeVersion(program_name, i + 1, listing)
    ELSE i

\* os.listdir of a directory
ListDir(dir) == DOMAIN dir

\* U.dump_text(text, path): the directory with the file written
DumpText(dir, file, text) == DictSet(dir, file, text)

\* The keys of skills.json (none while the file does not exist).
PersistedNames == IF skills_json.exists THEN DOMAIN skills_json.data ELSE {}

\* Documents of the dataset beyond the keys of skills.json, and that number
\* with one document more for each call in flight.
ExtraDocs == Len(documents) - Cardinality(PersistedNames)
ExtraDocsAhead == ExtraDocs + BagCardinality(skill_waiting)

\* Number of unrelated names already in skills.json.
FillCount == Cardinality(PersistedNames \ FreeNames)

\* The (name, code) pairs add_new_skill is called with on a small library:
\* the names under study with either code.
SkillInputs == {<<n, c>> : n \in {<<"h">>, <<"h", "V", "2">>}, c \in Codes}

\* The (name, code) pairs add_new_skill is called with on a large library:
\* first the unrelated names, once each and in order; then, from FillMin of
\* them on, the names under study.
StudyInputs == {<<n, c>> : n \in FreeNames, c \in Codes}
FilledSkillInputs ==
    (IF /\ FillCount < FillMax
        /\ \A i \in 1..Len(documents) : documents[i].name \notin FreeNames
     THEN {<<Filler(FillCount + 1), "c1">>}
     ELSE {})
    \cup (IF FillCount >= FillMin THEN StudyInputs ELSE {})

InitSkill ==
    /\ skills = EmptyDict
    /\ skills_json = NoFile
    /\ documents = << >>
    /\ next_doc_id = 1
    /\ code_dir = EmptyDict
    /\ description_dir = EmptyDict
    /\ skill_call = NoCall
    /\ skill_cache = EmptyDict
    /\ store_call = NoCall
    /\ skill_waiting = EmptyBag

(***************************************************************************)
(* Skill Manager: construction, retrieve_skills, get_skill, list_skills    *)
(***************************************************************************)

\* SkillManagerConfig.retrieval_top_k
RetrievalTopK == 5

\* What dict.get and SkillCache.get return for a missing key, and the code
\* retrieve_skills returns for a document the dictionary does not know.
None == [none |-> TRUE]
NoCode == ""

(***************************************************************************)
(* str.lower(), as CPython 3.11 (Unicode 14.0) computes it.                *)
(*                                                                         *)
(* A character is a string: a printable character of ASCII is written as   *)
(* itself ("h", "V", "."), every other character by its code point in the  *)
(* notation of the Unicode standard ("U+00C9" is the capital E with acute, *)
(* "U+03A3" the capital sigma); so is the backtick, "U+0060", which a      *)
(* TLA+ string cannot hold. A Python string is the sequence of its         *)
(* characters.                                                             *)
(***************************************************************************)

\* The printable characters of ASCII, from the space (code point 32) to the
\* tilde (126).
Ascii ==
    <<" ", "!", "\"", "#", "$", "%", "&", "'", "(", ")", "*", "+", ",", "-",
      ".", "/", "0", "1", "2", "3", "4", "5", "6", "7", "8", "9", ":", ";",
      "<", "=", ">", "?", "@", "A", "B", "C", "D", "E", "F", "G", "H", "I",
      "J", "K", "L", "M", "N", "O", "P", "Q", "R", "S", "T", "U", "V", "W",
      "X", "Y", "Z", "[", "\\", "]", "^", "_", "U+0060", "a", "b", "c",
      "d", "e", "f", "g", "h", "i", "j", "k", "l", "m", "n", "o", "p", "q",
      "r", "s", "t", "u", "v", "w", "x", "y", "z", "{", "|", "}", "~">>
HexDigit == <<"0", "1", "2", "3", "4", "5", "6", "7", "8", "9",
              "A", "B", "C", "D", "E", "F">>
RECURSIVE Hex(_, _)
Hex(n, width) ==
    IF n = 0 /\ width <= 0 THEN ""
    ELSE Hex(n \div 16, width - 1) \o HexDigit[(n % 16) + 1]

\* The character of a code point.
Chr(n) == IF n \in 32..126 THEN Ascii[n - 31] ELSE "U+" \o Hex(n, 4)

\* The characters str.lower() replaces by one other character, as runs
\* <<first, last, stride, delta>> of code points: first, first + stride, ...,
\* last become the characters delta code points further. The capital sigma
\* (931) and the capital I with dot above (304) are not among them.
LowerRuns ==
    { <<65, 90, 1, 32>>, <<192, 214, 1, 32>>, <<216, 222, 1, 32>>,
       <<256, 302, 2, 1>>, <<306, 310, 2, 1>>, <<313, 327, 2, 1>>,
       <<330, 374, 2, 1>>, <<376, 376, 1, -121>>, <<377, 381, 2, 1>>,
       <<385, 385, 1, 210>>, <<386, 388, 2, 1>>, <<390, 390, 1, 206>>,
       <<391, 391, 1, 1>>, <<393, 394, 1, 205>>, <<395, 395, 1, 1>>,
       <<398, 398, 1, 79>>, <<399, 399, 1, 202>>, <<400, 400, 1, 203>>,
       <<401, 401, 1, 1>>, <<403, 403, 1, 205>>, <<404, 404, 1, 207>>,
       <<406, 406, 1, 211>>, <<407, 407, 1, 209>>, <<408, 408, 1, 1>>,
       <<412, 412, 1, 211>>, <<413, 413, 1, 213>>, <<415, 415, 1, 214>>,
       <<416, 420, 2, 1>>, <<422, 422, 1, 218>>, <<423, 423, 1, 1>>,
       <<425, 425, 1, 218>>, <<428, 428, 1, 1>>, <<430, 430, 1, 218>>,
       <<431, 431, 1, 1>>, <<433, 434, 1, 217>>, <<435, 437, 2, 1>>,
       <<439, 439, 1, 219>>, <<440, 440, 1, 1>>, <<444, 444, 1, 1>>,
       <<452, 452, 1, 2>>, <<453, 453, 1, 1>>, <<455, 455, 1, 2>>,
       <<456, 456, 1, 1>>, <<458, 458, 1, 2>>, <<459, 475, 2, 1>>,
       <<478, 494, 2, 1>>, <<497, 497, 1, 2>>, <<498, 500, 2, 1>>,
       <<502, 502, 1, -97>>, <<503, 503, 1, -56>>, <<504, 542, 2, 1>>,
       <<544, 544, 1, -130>>, <<546, 562, 2, 1>>, <<570, 570, 1, 10795>>,
       <<571, 571, 1, 1>>, <<573, 573, 1, -163>>, <<574, 574, 1, 10792>>,
       <<577, 577, 1, 1>>, <<579, 579, 1, -195>>, <<580, 580, 1, 69>>,
       <<581, 581, 1, 71>>, <<582, 590, 2, 1>>, <<880, 882, 2, 1>>,
       <<886, 886, 1, 1>>, <<895, 895, 1, 116>>, <<902, 902, 1, 38>>,
       <<904, 906, 1, 37>>, <<908, 908, 1, 64>>, <<910, 911, 1, 63>>,
       <<913, 929, 1, 32>>, <<932, 939, 1, 32>>, <<975, 975, 1, 8>>,
       <<984, 1006, 2, 1>>, <<1012, 1012, 1, -60>>, <<1015, 1015, 1, 1>>,
       <<1017, 1017, 1, -7>>, <<1018, 1018, 1, 1>>, <<1021, 1023, 1, -130>>,
       <<1024, 1039, 1, 80>>, <<1040, 1071, 1, 32>>, <<1120, 1152, 2, 1>>,
       <<1162, 1214, 2, 1>>, <<1216, 1216, 1, 15>>, <<1217, 1229, 2, 1>>,
       <<1232, 1326, 2, 1>>, <<1329, 1366, 1, 48>>, <<4256, 4293, 1, 7264>>,
       <<4295, 4295, 1, 7264>>, <<4301, 4301, 1, 7264>>, <<5024, 5103, 1, 38864>>,
       <<5104, 5109, 1, 8>>, <<7312, 7354, 1, -3008>>, <<7357, 7359, 1, -3008>>,
       <<7680, 7828, 2, 1>>, <<7838, 7838, 1, -7615>>, <<7840, 7934, 2, 1>>,
       <<7944, 7951, 1, -8>>, <<7960, 7965, 1, -8>>, <<7976, 7983, 1, -8>>,
       <<7992, 7999, 1, -8>>, <<8008, 8013, 1, -8>>, <<8025, 8031, 2, -8>>,
       <<8040, 8047, 1, -8>>, <<8072, 8079, 1, -8>>, <<8088, 8095, 1, -8>>,
       <<8104, 8111, 1, -8>>, <<8120, 8121, 1, -8>>, <<8122, 8123, 1, -74>>,
       <<8124, 8124, 1, -9>>, <<8136, 8139, 1, -86>>, <<8140, 8140, 1, -9>>,
       <<8152, 8153, 1, -8>>, <<8154, 8155, 1, -100>>, <<8168, 8169, 1, -8>>,
       <<8170, 8171, 1, -112>>, <<8172, 8172, 1, -7>>, <<8184, 8185, 1, -128>>,
       <<8186, 8187, 1, -126>>, <<8188, 8188, 1, -9>>, <<8486, 8486, 1, -7517>>,
       <<8490, 8490, 1, -8383>>, <<8491, 8491, 1, -8262>>, <<8498, 8498, 1, 28>>,
       <<8544, 8559, 1, 16>>, <<8579, 8579, 1, 1>>, <<9398, 9423, 1, 26>>,
       <<11264, 11311, 1, 48>>, <<11360, 11360, 1, 1>>, <<11362, 11362, 1, -10743>>,
       <<11363, 11363, 1, -3814>>, <<11364, 11364, 1, -10727>>, <<11367, 11371, 2, 1>>,
       <<11373, 11373, 1, -10780>>, <<11374, 11374, 1, -10749>>, <<11375, 11375, 1, -10783>>,
       <<11376, 11376, 1, -10782>>, <<11378, 11378, 1, 1>>, <<11381, 11381, 1, 1>>,
       <<11390, 11391, 1, -10815>>, <<11392, 11490, 2, 1>>, <<11499, 11501, 2, 1>>,
       <<11506, 11506, 1, 1>>, <<42560, 42604, 2, 1>>, <<42624, 42650, 2, 1>>,
       <<42786, 42798, 2, 1>>, <<42802, 42862, 2, 1>>, <<42873, 42875, 2, 1>>,
       <<42877, 42877, 1, -35332>>, <<42878, 42886, 2, 1>>, <<42891, 42891, 1, 1>>,
       <<42893, 42893, 1, -42280>>, <<42896, 42898, 2, 1>>, <<42902, 42920, 2, 1>>,
       <<42922, 42922, 1, -42308>>, <<42923, 42923, 1, -42319>>, <<42924, 42924, 1, -42315>>,
       <<42925, 42925, 1, -42305>>, <<42926, 42926, 1, -42308>>, <<42928, 42928, 1, -42258>>,
       <<42929, 42929, 1, -42282>>, <<42930, 42930, 1, -42261>>, <<42931, 42931, 1, 928>>,
       <<42932, 42946, 2, 1>>, <<42948, 42948, 1, -48>>, <<42949, 42949, 1, -42307>>,
       <<42950, 42950, 1, -35384>>, <<42951, 42953, 2, 1>>, <<42960, 42960, 1, 1>>,
       <<42966, 42968, 2, 1>>, <<42997, 42997, 1, 1>>, <<65313, 65338, 1, 32>>,
       <<66560, 66599, 1, 40>>, <<66736, 66771, 1, 40>>, <<66928, 66938, 1, 39>>,
       <<66940, 66954, 1, 39>>, <<66956, 66962, 1, 39>>, <<66964, 66965, 1, 39>>,
       <<68736, 68786, 1, 64>>, <<71840, 71871, 1, 32>>, <<93760, 93791, 1, 32>>,
       <<125184, 125217, 1, 34>> }

\* The characters unicodeobject.c's handle_capital_sigma stops at and finds
\* cased (the cased characters that are not case-ignorable), and the
\* case-ignorable characters it skips, as ranges <<first, last>> of code
\* points.
CasedRanges ==
    { <<65, 90>>, <<97, 122>>, <<170, 170>>, <<181, 181>>, <<186, 186>>,
       <<192, 214>>, <<216, 246>>, <<248, 442>>, <<444, 447>>, <<452, 659>>,
       <<661, 687>>, <<880, 883>>, <<886, 887>>, <<891, 893>>, <<895, 895>>,
       <<902, 902>>, <<904, 906>>, <<908, 908>>, <<910, 929>>, <<931, 1013>>,
       <<1015, 1153>>, <<1162, 1327>>, <<1329, 1366>>, <<1376, 1416>>, <<4256, 4293>>,
       <<4295, 4295>>, <<4301, 4301>>, <<4304, 4346>>, <<4349, 4351>>, <<5024, 5109>>,
       <<5112, 5117>>, <<7296, 7304>>, <<7312, 7354>>, <<7357, 7359>>, <<7424, 7467>>,
       <<7531, 7543>>, <<7545, 7578>>, <<7680, 7957>>, <<7960, 7965>>, <<7968, 8005>>,
       <<8008, 8013>>, <<8016, 8023>>, <<8025, 8025>>, <<8027, 8027>>, <<8029, 8029>>,
       <<8031, 8061>>, <<8064, 8116>>, <<8118, 8124>>, <<8126, 8126>>, <<8130, 8132>>,
       <<8134, 8140>>, <<8144, 8147>>, <<8150, 8155>>, <<8160, 8172>>, <<8178, 8180>>,
       <<8182, 8188>>, <<8450, 8450>>, <<8455, 8455>>, <<8458, 8467>>, <<8469, 8469>>,
       <<8473, 8477>>, <<8484, 8484>>, <<8486, 8486>>, <<8488, 8488>>, <<8490, 8493>>,
       <<8495, 8500>>, <<8505, 8505>>, <<8508, 8511>>, <<8517, 8521>>, <<8526, 8526>>,
       <<8544, 8575>>, <<8579, 8580>>, <<9398, 9449>>, <<11264, 11387>>, <<11390, 11492>>,
       <<11499, 11502>>, <<11506, 11507>>, <<11520, 11557>>, <<11559, 11559>>, <<11565, 11565>>,
       <<42560, 42605>>, <<42624, 42651>>, <<42786, 42863>>, <<42865, 42887>>, <<42891, 42894>>,
       <<42896, 42954>>, <<42960, 42961>>, <<42963, 42963>>, <<42965, 42969>>, <<42997, 42998>>,
       <<43002, 43002>>, <<43824, 43866>>, <<43872, 43880>>, <<43888, 43967>>, <<64256, 64262>>,
       <<64275, 64279>>, <<65313, 65338>>, <<65345, 65370>>, <<66560, 66639>>, <<66736, 66771>>,
       <<66776, 66811>>, <<66928, 66938>>, <<66940, 66954>>, <<66956, 66962>>, <<66964, 66965>>,
       <<66967, 66977>>, <<66979, 66993>>, <<66995, 67001>>, <<67003, 67004>>, <<68736, 68786>>,
       <<68800, 68850>>, <<71840, 71903>>, <<93760, 93823>>, <<119808, 119892>>, <<119894, 119964>>,
       <<119966, 119967>>, <<119970, 119970>>, <<119973, 119974>>, <<119977, 119980>>, <<119982, 119993>>,
       <<119995, 119995>>, <<119997, 120003>>, <<120005, 120069>>, <<120071, 120074>>, <<120077, 120084>>,
       <<120086, 120092>>, <<120094, 120121>>, <<120123, 120126>>, <<120128, 120132>>, <<120134, 120134>>,
       <<120138, 120144>>, <<120146, 120485>>, <<120488, 120512>>, <<120514, 120538>>, <<120540, 120570>>,
       <<120572, 120596>>, <<120598, 120628>>, <<120630, 120654>>, <<120656, 120686>>, <<120688, 120712>>,
       <<120714, 120744>>, <<120746, 120770>>, <<120772, 120779>>, <<122624, 122633>>, <<122635, 122654>>,
       <<125184, 125251>>, <<127280, 127305>>, <<127312, 127337>>, <<127344, 127369>> }

CaseIgnorableRanges ==
    { <<39, 39>>, <<46, 46>>, <<58, 58>>, <<94, 94>>, <<96, 96>>,
       <<168, 168>>, <<173, 173>>, <<175, 175>>, <<180, 180>>, <<183, 184>>,
       <<688, 879>>, <<884, 885>>, <<890, 890>>, <<900, 901>>, <<903, 903>>,
       <<1155, 1161>>, <<1369, 1369>>, <<1375, 1375>>, <<1425, 1469>>, <<1471, 1471>>,
       <<1473, 1474>>, <<1476, 1477>>, <<1479, 1479>>, <<1524, 1524>>, <<1536, 1541>>,
       <<1552, 1562>>, <<1564, 1564>>, <<1600, 1600>>, <<1611, 1631>>, <<1648, 1648>>,
       <<1750, 1757>>, <<1759, 1768>>, <<1770, 1773>>, <<1807, 1807>>, <<1809, 1809>>,
       <<1840, 1866>>, <<1958, 1968>>, <<2027, 2037>>, <<2042, 2042>>, <<2045, 2045>>,
       <<2070, 2093>>, <<2137, 2139>>, <<2184, 2184>>, <<2192, 2193>>, <<2200, 2207>>,
       <<2249, 2306>>, <<2362, 2362>>, <<2364, 2364>>, <<2369, 2376>>, <<2381, 2381>>,
       <<2385, 2391>>, <<2402, 2403>>, <<2417, 2417>>, <<2433, 2433>>, <<2492, 2492>>,
       <<2497, 2500>>, <<2509, 2509>>, <<2530, 2531>>, <<2558, 2558>>, <<2561, 2562>>,
       <<2620, 2620>>, <<2625, 2626>>, <<2631, 2632>>, <<2635, 2637>>, <<2641, 2641>>,
       <<2672, 2673>>, <<2677, 2677>>, <<2689, 2690>>, <<2748, 2748>>, <<2753, 2757>>,
       <<2759, 2760>>, <<2765, 2765>>, <<2786, 2787>>, <<2810, 2815>>, <<2817, 2817>>,
       <<2876, 2876>>, <<2879, 2879>>, <<2881, 2884>>, <<2893, 2893>>, <<2901, 2902>>,
       <<2914, 2915>>, <<2946, 2946>>, <<3008, 3008>>, <<3021, 3021>>, <<3072, 3072>>,
       <<3076, 3076>>, <<3132, 3132>>, <<3134, 3136>>, <<3142, 3144>>, <<3146, 3149>>,
       <<3157, 3158>>, <<3170, 3171>>, <<3201, 3201>>, <<3260, 3260>>, <<3263, 3263>>,
       <<3270, 3270>>, <<3276, 3277>>, <<3298, 3299>>, <<3328, 3329>>, <<3387, 3388>>,
       <<3393, 3396>>, <<3405, 3405>>, <<3426, 3427>>, <<3457, 3457>>, <<3530, 3530>>,
       <<3538, 3540>>, <<3542, 3542>>, <<3633, 3633>>, <<3636, 3642>>, <<3654, 3662>>,
       <<3761, 3761>>, <<3764, 3772>>, <<3782, 3782>>, <<3784, 3789>>, <<3864, 3865>>,
       <<3893, 3893>>, <<3895, 3895>>, <<3897, 3897>>, <<3953, 3966>>, <<3968, 3972>>,
       <<3974, 3975>>, <<3981, 3991>>, <<3993, 4028>>, <<4038, 4038>>, <<4141, 4144>>,
       <<4146, 4151>>, <<4153, 4154>>, <<4157, 4158>>, <<4184, 4185>>, <<4190, 4192>>,
       <<4209, 4212>>, <<4226, 4226>>, <<4229, 4230>>, <<4237, 4237>>, <<4253, 4253>>,
       <<4348, 4348>>, <<4957, 4959>>, <<5906, 5908>>, <<5938, 5939>>, <<5970, 5971>>,
       <<6002, 6003>>, <<6068, 6069>>, <<6071, 6077>>, <<6086, 6086>>, <<6089, 6099>>,
       <<6103, 6103>>, <<6109, 6109>>, <<6155, 6159>>, <<6211, 6211>>, <<6277, 6278>>,
       <<6313, 6313>>, <<6432, 6434>>, <<6439, 6440>>, <<6450, 6450>>, <<6457, 6459>>,
       <<6679, 6680>>, <<6683, 6683>>, <<6742, 6742>>, <<6744, 6750>>, <<6752, 6752>>,
       <<6754, 6754>>, <<6757, 6764>>, <<6771, 6780>>, <<6783, 6783>>, <<6823, 6823>>,
       <<6832, 6862>>, <<6912, 6915>>, <<6964, 6964>>, <<6966, 6970>>, <<6972, 6972>>,
       <<6978, 6978>>, <<7019, 7027>>, <<7040, 7041>>, <<7074, 7077>>, <<7080, 7081>>,
       <<7083, 7085>>, <<7142, 7142>>, <<7144, 7145>>, <<7149, 7149>>, <<7151, 7153>>,
       <<7212, 7219>>, <<7222, 7223>>, <<7288, 7293>>, <<7376, 7378>>, <<7380, 7392>>,
       <<7394, 7400>>, <<7405, 7405>>, <<7412, 7412>>, <<7416, 7417>>, <<7468, 7530>>,
       <<7544, 7544>>, <<7579, 7679>>, <<8125, 8125>>, <<8127, 8129>>, <<8141, 8143>>,
       <<8157, 8159>>, <<8173, 8175>>, <<8189, 8190>>, <<8203, 8207>>, <<8216, 8217>>,
       <<8228, 8228>>, <<8231, 8231>>, <<8234, 8238>>, <<8288, 8292>>, <<8294, 8303>>,
       <<8305, 8305>>, <<8319, 8319>>, <<8336, 8348>>, <<8400, 8432>>, <<11388, 11389>>,
       <<11503, 11505>>, <<11631, 11631>>, <<11647, 11647>>, <<11744, 11775>>, <<11823, 11823>>,
       <<12293, 12293>>, <<12330, 12333>>, <<12337, 12341>>, <<12347, 12347>>, <<12441, 12446>>,
       <<12540, 12542>>, <<40981, 40981>>, <<42232, 42237>>, <<42508, 42508>>, <<42607, 42610>>,
       <<42612, 42621>>, <<42623, 42623>>, <<42652, 42655>>, <<42736, 42737>>, <<42752, 42785>>,
       <<42864, 42864>>, <<42888, 42890>>, <<42994, 42996>>, <<43000, 43001>>, <<43010, 43010>>,
       <<43014, 43014>>, <<43019, 43019>>, <<43045, 43046>>, <<43052, 43052>>, <<43204, 43205>>,
       <<43232, 43249>>, <<43263, 43263>>, <<43302, 43309>>, <<43335, 43345>>, <<43392, 43394>>,
       <<43443, 43443>>, <<43446, 43449>>, <<43452, 43453>>, <<43471, 43471>>, <<43493, 43494>>,
       <<43561, 43566>>, <<43569, 43570>>, <<43573, 43574>>, <<43587, 43587>>, <<43596, 43596>>,
       <<43632, 43632>>, <<43644, 43644>>, <<43696, 43696>>, <<43698, 43700>>, <<43703, 43704>>,
       <<43710, 43711>>, <<43713, 43713>>, <<43741, 43741>>, <<43756, 43757>>, <<43763, 43764>>,
       <<43766, 43766>>, <<43867, 43871>>, <<43881, 43883>>, <<44005, 44005>>, <<44008, 44008>>,
       <<44013, 44013>>, <<64286, 64286>>, <<64434, 64450>>, <<65024, 65039>>, <<65043, 65043>>,
       <<65056, 65071>>, <<65106, 65106>>, <<65109, 65109>>, <<65279, 65279>>, <<65287, 65287>>,
       <<65294, 65294>>, <<65306, 65306>>, <<65342, 65342>>, <<65344, 65344>>, <<65392, 65392>>,
       <<65438, 65439>>, <<65507, 65507>>, <<65529, 65531>>, <<66045, 66045>>, <<66272, 66272>>,
       <<66422, 66426>>, <<67456, 67461>>, <<67463, 67504>>, <<67506, 67514>>, <<68097, 68099>>,
       <<68101, 68102>>, <<68108, 68111>>, <<68152, 68154>>, <<68159, 68159>>, <<68325, 68326>>,
       <<68900, 68903>>, <<69291, 69292>>, <<69446, 69456>>, <<69506, 69509>>, <<69633, 69633>>,
       <<69688, 69702>>, <<69744, 69744>>, <<69747, 69748>>, <<69759, 69761>>, <<69811, 69814>>,
       <<69817, 69818>>, <<69821, 69821>>, <<69826, 69826>>, <<69837, 69837>>, <<69888, 69890>>,
       <<69927, 69931>>, <<69933, 69940>>, <<70003, 70003>>, <<70016, 70017>>, <<70070, 70078>>,
       <<70089, 70092>>, <<70095, 70095>>, <<70191, 70193>>, <<70196, 70196>>, <<70198, 70199>>,
       <<70206, 70206>>, <<70367, 70367>>, <<70371, 70378>>, <<70400, 70401>>, <<70459, 70460>>,
       <<70464, 70464>>, <<70502, 70508>>, <<70512, 70516>>, <<70712, 70719>>, <<70722, 70724>>,
       <<70726, 70726>>, <<70750, 70750>>, <<70835, 70840>>, <<70842, 70842>>, <<70847, 70848>>,
       <<70850, 70851>>, <<71090, 71093>>, <<71100, 71101>>, <<71103, 71104>>, <<71132, 71133>>,
       <<71219, 71226>>, <<71229, 71229>>, <<71231, 71232>>, <<71339, 71339>>, <<71341, 71341>>,
       <<71344, 71349>>, <<71351, 71351>>, <<71453, 71455>>, <<71458, 71461>>, <<71463, 71467>>,
       <<71727, 71735>>, <<71737, 71738>>, <<71995, 71996>>, <<71998, 71998>>, <<72003, 72003>>,
       <<72148, 72151>>, <<72154, 72155>>, <<72160, 72160>>, <<72193, 72202>>, <<72243, 72248>>,
       <<72251, 72254>>, <<72263, 72263>>, <<72273, 72278>>, <<72281, 72283>>, <<72330, 72342>>,
       <<72344, 72345>>, <<72752, 72758>>, <<72760, 72765>>, <<72767, 72767>>, <<72850, 72871>>,
       <<72874, 72880>>, <<72882, 72883>>, <<72885, 72886>>, <<73009, 73014>>, <<73018, 73018>>,
       <<73020, 73021>>, <<73023, 73029>>, <<73031, 73031>>, <<73104, 73105>>, <<73109, 73109>>,
       <<73111, 73111>>, <<73459, 73460>>, <<78896, 78904>>, <<92912, 92916>>, <<92976, 92982>>,
       <<92992, 92995>>, <<94031, 94031>>, <<94095, 94111>>, <<94176, 94177>>, <<94179, 94180>>,
       <<110576, 110579>>, <<110581, 110587>>, <<110589, 110590>>, <<113821, 113822>>, <<113824, 113827>>,
       <<118528, 118573>>, <<118576, 118598>>, <<119143, 119145>>, <<119155, 119170>>, <<119173, 119179>>,
       <<119210, 119213>>, <<119362, 119364>>, <<121344, 121398>>, <<121403, 121452>>, <<121461, 121461>>,
       <<121476, 121476>>, <<121499, 121503>>, <<121505, 121519>>, <<122880, 122886>>, <<122888, 122904>>,
       <<122907, 122913>>, <<122915, 122916>>, <<122918, 122922>>, <<123184, 123197>>, <<123566, 123566>>,
       <<123628, 123631>>, <<125136, 125142>>, <<125252, 125259>>, <<127995, 127999>>, <<917505, 917505>>,
       <<917536, 917631>>, <<917760, 917999>> }

InRanges(ranges) == UNION {{Chr(n) : n \in r[1]..r[2]} : r \in ranges}
Cased == InRanges(CasedRanges)
CaseIgnorable == InRanges(CaseIgnorableRanges)

\* The lower-case character of every character of LowerRuns.
LowerOf ==
    LET Pairs(r) == {<<Chr(r[1] + r[3] * k), Chr(r[1] + r[3] * k + r[4])>> :
                         k \in 0..((r[2] - r[1]) \div r[3])}
        pairs == UNION {Pairs(r) : r \in LowerRuns}
    IN  [c \in {p[1] : p \in pairs} |-> (CHOOSE p \in pairs : p[1] = c)[2]]
\* The characters str.lower() writes for a character other than the capital
\* sigma: "i" and the combining dot above for U+0130, the lower-case
\* character of a character that has one, the character itself otherwise.
LowerChar(c) ==
    IF c = Chr(304) THEN <<"i", Chr(775)>>
    ELSE IF c \in DOMAIN LowerOf THEN <<LowerOf[c]>> ELSE <<c>>

\* handle_capital_sigma: the capital sigma at i becomes the final sigma
\* (962) if, case-ignorable characters skipped, a cased character comes
\* before it and none comes after it; else the small sigma (963).
IsFinalSigma(str, i) ==
    LET before == {j \in 1..(i - 1) : str[j] \notin CaseIgnorable}
        after  == {j \in (i + 1)..Len(str) : str[j] \notin CaseIgnorable}
    IN  /\ before # {}
        /\ str[CHOOSE j \in before : \A k \in before : k <= j] \in Cased
        /\ \/ after = {}
           \/ str[CHOOSE j \in after : \A k \in after : j <= k] \notin Cased
LowerAt(str, i) ==
    IF str[i] = Chr(931)
    THEN <<IF IsFinalSigma(str, i) THEN Chr(962) ELSE Chr(963)>>
    ELSE LowerChar(str[i])
RECURSIVE LowerUpTo(_, _)
LowerUpTo(str, i) ==
    IF i = 0 THEN << >> ELSE LowerUpTo(str, i - 1) \o LowerAt(str, i)

\* str.lower()
Lower(str) == LowerUpTo(str, Len(str))

\* query in name
IsInfix(query, name) ==
    \E i \in 0..(Len(name) - Len(query)) : SubSeq(name, i + 1, i + Len(query)) = query

\* query.lower() in document["name"].lower()
Matches(query, name) ==
    \E q \in {Lower(query)}, n \in {Lower(name)} : IsInfix(q, n)

\* The documents the loop of retrieve_skills appends for: the matching
\* documents of list_documents' answer, in its order, until
\* retrieval_top_k are taken.
MatchedIn(data, query) ==
    LET matched == SelectSeq(data, LAMBDA d : Matches(query, d.name))
    IN  SubSeq(matched, 1, IF Len(matched) < RetrievalTopK
                           THEN Len(matched) ELSE RetrievalTopK)
MatchedDocuments(docs, query) == MatchedIn(ListDocuments(docs, 1, PageLimit), query)

\* SkillCache.get(name) and self.skills.get(name). The usage counts of the
\* cache decide only which entry SkillCache.add evicts from a full cache,
\* and the cache (cache_size 100) is filled by _load_skills alone.
SkillCacheGet(cache, name) == IF name \in DOMAIN cache THEN cache[name] ELSE None
SkillsGet(skill_dict, name) ==
    IF name \in DOMAIN skill_dict THEN skill_dict[name] ELSE None

\* The code retrieve_skills appends for a matching document: the cached
\* skill's code if the cache has the name, else the dictionary's, else "".
RetrievedCode(cache, skill_dict, name) ==
    IF SkillCacheGet(cache, name) # None
    THEN SkillCacheGet(cache, name).code
    ELSE IF name \in DOMAIN skill_dict THEN skill_dict[name].code ELSE NoCode

\* SkillManager.retrieve_skills(query): what it returns, and the
\* matched_names it logs.
RetrievedCodes(taken, cache, skill_dict) ==
    [i \in 1..Len(taken) |-> RetrievedCode(cache, skill_dict, taken[i].name)]
RetrieveSkills(docs, cache, skill_dict, query) ==
    RetrievedCodes(MatchedDocuments(docs, query), cache, skill_dict)
MatchedNames(taken) == [i \in 1..Len(taken) |-> taken[i].name]

\* SkillManager(config): _load_skills. With resume the dictionary is read
\* from skills.json (it is {} if the file cannot be read) and every entry is
\* put into the skill cache; without resume both start empty. The dataset
\* and the files on disk are those of the earlier runs.
SkillManagerInit(resume) ==
    LET loaded == IF resume /\ skills_json.exists THEN skills_json.data
                  ELSE EmptyDict
    IN  /\ skills' = loaded
        /\ skill_cache' = loaded
        /\ skill_call' = NoCall
        /\ store_call' = [op |-> "init", resume |-> resume]
        /\ UNCHANGED <<skills_json, documents, next_doc_id, code_dir,
                       description_dir, skill_waiting>>

\* get_skill(skill_name): the cached skill if there is one, else the
\* dictionary's.
GetSkillResult(cache, skill_dict, skill_name) ==
    IF SkillCacheGet(cache, skill_name) # None
    THEN SkillCacheGet(cache, skill_name)
    ELSE SkillsGet(skill_dict, skill_name)

GetSkill(skill_name) ==
    /\ store_call' = [op |-> "get_skill", skill_name |-> skill_name,
                      result |-> GetSkillResult(skill_cache, skills, skill_name)]
    /\ UNCHANGED <<skills, skills_json, documents, next_doc_id, code_dir,
                   description_dir, skill_call, skill_cache, skill_waiting>>

\* list_skills(): list(self.skills.keys())
ListSkills ==
    /\ store_call' = [op |-> "list_skills", result |-> DOMAIN skills]
    /\ UNCHANGED <<skills, skills_json, documents, next_doc_id, code_dir,
                   description_dir, skill_call, skill_cache, skill_waiting>>

(***************************************************************************)
(* Skill Manager: add_new_skill and retrieve_skills between their awaits   *)
(*                                                                         *)
(* A call that awaits the LLM or the dataset is suspended and the event    *)
(* loop runs the other coroutines. A suspended call is kept with its local *)
(* variables: pc says what it waits for; a request to the dataset is       *)
(* "sent" until the dataset handles it and "done" from then until the      *)
(* event loop resumes the call. self.skills is read and written as it is   *)
(* when the call runs.                                                     *)
(***************************************************************************)

\* The local variables of a suspended call, and in `by` who awaits it: a
\* method of Kaichi ("reset", "learn") or a task of its own ("task").
SkillFrame(by, op, pc, name, code, existed, dumped) ==
    [by |-> by, op |-> op, pc |-> pc, name |-> name, code |-> code,
     existed |-> existed, dumped |-> dumped, error |-> FALSE, data |-> << >>]

\* The suspended calls once call has moved on to the frame next, and once it
\* has ended.
MovedOn(call, next) == (skill_waiting (-) SetToBag({call})) (+) SetToBag({next})
Ended(call) == skill_waiting (-) SetToBag({call})

\* How an add_new_skill call that ends is recorded.
AddEnds(call, kind, exc) ==
    [op |-> "add_new_skill", program_name |-> call.name,
     program_code |-> call.code, existed |-> call.existed,
     dumped |-> call.dumped, kind |-> kind, exc |-> exc,
     stored |-> (kind = "returned")]

\* add_new_skill({program_name, program_code}) up to
\* `await self.generate_skill_description(...)`.
AddBegin(by, program_name, program_code) ==
    /\ BagCardinality(skill_waiting) < Cardinality(Callers)
    /\ skill_waiting' = skill_waiting (+)
           SetToBag({SkillFrame(by, "add_new_skill", "describe", program_name,
                                program_code, FALSE, << >>)})
    /\ skill_call' = NoCall
    /\ store_call' = NoCall
    /\ UNCHANGED <<skills, skills_json, documents, next_doc_id, code_dir,
                   description_dir, skill_cache>>

\* The description is there (gen_ok) or generate_skill_description raised
\* (on an LLM error or an answer that is no JSON).
\* The call reads skills.json into self.skills (writing {} if the file is
\* missing) and sends delete_document for a name it finds there,
\* create_document_by_text for a new name.
AddDescribed(call, gen_ok) ==
    /\ call.pc = "describe"
    /\ store_call' = NoCall
    /\ UNCHANGED <<documents, next_doc_id, code_dir, description_dir, skill_cache>>
    /\ IF ~gen_ok
       THEN /\ skill_call' = AddEnds(call, "raised", "ValueError")
            /\ skill_waiting' = Ended(call)
            /\ UNCHANGED <<skills, skills_json>>
       ELSE LET loaded  == IF skills_json.exists THEN skills_json.data
                           ELSE EmptyDict
                existed == call.name \in DOMAIN loaded
            IN  /\ skills' = loaded
                /\ skills_json' = IF skills_json.exists THEN skills_json
                                  ELSE File(EmptyDict)
                /\ skill_call' = NoCall
                /\ skill_waiting' =
                       MovedOn(call,
                               IF existed
                               THEN [call EXCEPT !.pc = "delete_sent",
                                                 !.existed = TRUE]
                               ELSE [call EXCEPT !.pc = "create_sent",
                                                 !.dumped = call.name])

\* The dataset handles delete_document(dataset_id, program_name).
DatasetDeletes(call) ==
    /\ call.pc = "delete_sent"
    /\ documents' = DeleteDocument(documents, call.name)
    /\ skill_waiting' = MovedOn(call, [call EXCEPT !.pc = "delete_done"])
    /\ skill_call' = NoCall
    /\ store_call' = NoCall
    /\ UNCHANGED <<skills, skills_json, next_doc_id, code_dir, description_dir,
                   skill_cache>>

\* After the delete: the version search over the code directory as it is
\* now, then create_document_by_text is sent.
AddDeleted(call) ==
    /\ call.pc = "delete_done"
    /\ skill_waiting' =
           MovedOn(call,
                   [call EXCEPT !.pc = "create_sent",
                                !.dumped = VersionedName(call.name,
                                    FirstFreeVersion(call.name, 2,
                                                     ListDir(code_dir)))])
    /\ skill_call' = NoCall
    /\ store_call' = NoCall
    /\ UNCHANGED <<skills, skills_json, documents, next_doc_id, code_dir,
                   description_dir, skill_cache>>

\* The dataset handles create_document_by_text: it creates the document, or
\* answers with an "error" key and creates none.
DatasetCreates(call, create_ok) ==
    /\ call.pc = "create_sent"
    /\ IF create_ok
       THEN /\ documents' = CreateDocumentByText(documents, DocId(next_doc_id),
                                                 call.name, Description)
            /\ next_doc_id' = next_doc_id + 1
       ELSE UNCHANGED <<documents, next_doc_id>>
    /\ skill_waiting' = MovedOn(call, [call EXCEPT !.pc = "create_done",
                                                   !.error = ~create_ok])
    /\ skill_call' = NoCall
    /\ store_call' = NoCall
    /\ UNCHANGED <<skills, skills_json, code_dir, description_dir, skill_cache>>

\* After the create: raise on an "error" answer, else put the skill into
\* self.skills and send list_documents.
AddCreated(call) ==
    /\ call.pc = "create_done"
    /\ store_call' = NoCall
    /\ UNCHANGED <<skills_json, documents, next_doc_id, code_dir,
                   description_dir, skill_cache>>
    /\ IF call.error
       THEN /\ skill_call' = AddEnds(call, "raised", "ValueError")
            /\ skill_waiting' = Ended(call)
            /\ UNCHANGED skills
       ELSE /\ skills' = DictSet(skills, call.name,
                                 [code |-> call.code, description |-> Description])
            /\ skill_call' = NoCall
            /\ skill_waiting' = MovedOn(call, [call EXCEPT !.pc = "list_sent"])

\* The dataset handles list_documents(dataset_id), of add_new_skill or of
\* retrieve_skills: the answer holds the first page as it is now.
DatasetLists(call) ==
    /\ call.pc = "list_sent"
    /\ skill_waiting' =
           MovedOn(call, [call EXCEPT !.pc = "list_done",
                                      !.data = ListDocuments(documents, 1, PageLimit)])
    /\ skill_call' = NoCall
    /\ store_call' = NoCall
    /\ UNCHANGED <<skills, skills_json, documents, next_doc_id, code_dir,
                   description_dir, skill_cache>>

\* After the listing: the assertion, then the two files and skills.json are
\* written from self.skills as it is now.
AddListed(call) ==
    /\ call.op = "add_new_skill"
    /\ call.pc = "list_done"
    /\ skill_waiting' = Ended(call)
    /\ store_call' = NoCall
    /\ UNCHANGED <<skills, documents, next_doc_id, skill_cache>>
    /\ IF Len(call.data) # Cardinality(DOMAIN skills)
       THEN /\ skill_call' = AddEnds(call, "raised", "AssertionError")
            /\ UNCHANGED <<skills_json, code_dir, description_dir>>
       ELSE /\ code_dir' = DumpText(code_dir, PyFile(call.dumped), call.code)
            /\ description_dir' = DumpText(description_dir, TxtFile(call.dumped),
                                           Description)
            /\ skills_json' = File(skills)
            /\ skill_call' = AddEnds(call, "returned", "")

\* retrieve_skills up to `await self.dataset_api.list_documents(...)`.
RetrieveBegin(by, query) ==
    /\ BagCardinality(skill_waiting) < Cardinality(Callers)
    /\ skill_waiting' = skill_waiting (+)
           SetToBag({SkillFrame(by, "retrieve_skills", "list_sent", query,
                                NoCode, FALSE, << >>)})
    /\ skill_call' = NoCall
    /\ store_call' = NoCall
    /\ UNCHANGED <<skills, skills_json, documents, next_doc_id, code_dir,
                   description_dir, skill_cache>>

\* After the listing: the loop over the documents of the answer, reading the
\* skill cache and self.skills as they are now.
RetrieveListed(call) ==
    /\ call.op = "retrieve_skills"
    /\ call.pc = "list_done"
    /\ skill_waiting' = Ended(call)
    /\ \E taken \in {MatchedIn(call.data, call.name)} :
           store_call' = [op |-> "retrieve_skills", query |-> call.name,
                          data |-> call.data,
                          result |-> RetrievedCodes(taken, skill_cache, skills),
                          matched_names |-> MatchedNames(taken)]
    /\ skill_call' = NoCall
    /\ UNCHANGED <<skills, skills_json, documents, next_doc_id, code_dir,
                   description_dir, skill_cache>>

\* The request list_documents of retrieve_skills raises: the except clause
\* of retrieve_skills raises it again.
RetrieveRaised(call) ==
    /\ call.op = "retrieve_skills"
    /\ call.pc = "list_sent"
    /\ skill_waiting' = Ended(call)
    /\ store_call' = [op |-> "retrieve_skills", query |-> call.name,
                      data |-> << >>, kind |-> "raised", result |-> << >>,
                      matched_names |-> << >>]
    /\ skill_call' = NoCall
    /\ UNCHANGED <<skills, skills_json, documents, next_doc_id, code_dir,
                   description_dir, skill_cache>>

\* The dataset handles the request a suspended call has sent.
DatasetAnswers(call, create_ok) ==
    CASE call.pc = "delete_sent" -> DatasetDeletes(call)
      [] call.pc = "create_sent" -> DatasetCreates(call, create_ok)
      [] call.pc = "list_sent"   -> DatasetLists(call)
      [] OTHER -> FALSE

\* The event loop resumes a suspended call whose awaited answer is there.
SkillResumes(call, gen_ok) ==
    CASE call.pc = "describe"    -> AddDescribed(call, gen_ok)
      [] call.pc = "delete_done" -> AddDeleted(call)
      [] call.pc = "create_done" -> AddCreated(call)
      [] call.pc = "list_done"   ->
             IF call.op = "add_new_skill" THEN AddListed(call)
             ELSE RetrieveListed(call)
      [] OTHER -> FALSE

\* The queries retrieve_skills is called with.
LibraryQueries == {<<"s">>, <<"H", "v">>}
\* The (name, code) pairs add_new_skill is called with while the library is
\* read and reopened.
LibraryInputs ==
    {<<<<"h">>, "c1">>, <<<<"h">>, "c2">>, <<<<"h", "V", "2">>, "c1">>}

(***************************************************************************)
(* Action Agent: generate_code and process_ai_message                      *)
(*                                                                         *)
(* An AI message is the sequence of its fenced code blocks (the text       *)
(* outside the fences is dropped by the regex). A block is a sequence of   *)
(* top-level statements; a statement is a function definition (async or    *)
(* not, with the definitions nested in its body), a statement that uses a  *)
(* name (a call such as asyncio.run(main())), or text that is no Python.   *)
(***************************************************************************)

\* Most fenced blocks in a message.
MaxBlocks == 2

\* ActionConfig.max_retries as Kaichi configures the Action Agent.
ActionMaxRetries == 3

\* process_ai_message: retry = 1
ProcessRetries == 1

\* Function names in generated code.
CodeNames == {"main", "helper"}

\* Names the renaming LLM may suggest; "class" matches the regex
\* [a-zA-Z_][a-zA-Z0-9_]* but is a Python keyword.
NewNames == {"fetch_value", "helper", "class"}
Keywords == {"class"}

Stmt(type, name, body) == [type |-> type, name |-> name, body |-> body]

NestedStmts == {Stmt("AsyncFunction", "helper", << >>)}

Stmts ==
    {Stmt(t, n, << >>) : t \in {"AsyncFunction", "Function", "Call"}, n \in CodeNames}
    \cup {Stmt("AsyncFunction", "main", <<b>>) : b \in NestedStmts}
    \cup {Stmt("Bad", "", << >>)}

\* A fenced block: empty, or one top-level statement.
Blocks == {<< >>} \cup {<<st>> : st \in Stmts}

\* The AI messages: up to MaxBlocks fenced blocks.
Messages == UNION {[1..n -> Blocks] : n \in 0..MaxBlocks}

\* What the LLM answers to the renaming prompt: an answer holding
\* "new_function_name: <name>", an answer without it, or an error.
RenameAnswers ==
    {[kind |-> "name", name |-> n] : n \in NewNames}
    \cup {[kind |-> "no_match", name |-> ""], [kind |-> "error", name |-> ""]}

\* What the LLM answers to generate_code.
CodeAnswers ==
    {[kind |-> "answer", answer |-> m] : m \in Messages}
    \cup {[kind |-> "error", answer |-> << >>]}

\* "\n".join(code_pattern.findall(message))
RECURSIVE JoinBlocks(_)
JoinBlocks(message) ==
    IF message = << >> THEN << >> ELSE Head(message) \o JoinBlocks(Tail(message))

\* The statements nested one level down, in order.
RECURSIVE NestedOf(_)
NestedOf(code) ==
    IF code = << >> THEN << >> ELSE Head(code).body \o NestedOf(Tail(code))

IsFunction(st) == st.type \in {"AsyncFunction", "Function"}

\* The function definitions in the order ast.walk (breadth first) meets them.
WalkFunctions(code) ==
    SelectSeq(code, IsFunction) \o SelectSeq(NestedOf(code), IsFunction)

\* ast.parse(code) succeeds
Parses(code) ==
    /\ \A i \in 1..Len(code) : code[i].type # "Bad" /\ code[i].name \notin Keywords
    /\ \A i \in 1..Len(NestedOf(code)) :
           NestedOf(code)[i].type # "Bad" /\ NestedOf(code)[i].name \notin Keywords

\* for function in reversed(functions): the last async function, or None
MainFunction(functions) ==
    LET idx == {i \in 1..Len(functions) : functions[i].type = "AsyncFunction"}
    IN  IF idx = {} THEN Stmt("None", "", << >>)
        ELSE functions[CHOOSE i \in idx : \A j \in idx : i >= j]

\* re.sub(rf"\b{old}\b", new, code): every use of the name, in every statement
RenameStmt(st, old, new) ==
    [type |-> st.type,
     name |-> IF st.name = old THEN new ELSE st.name,
     body |-> [i \in 1..Len(st.body) |->
                  [st.body[i] EXCEPT !.name = IF @ = old THEN new ELSE @]]]

RenameCode(code, old, new) == [i \in 1..Len(code) |-> RenameStmt(code[i], old, new)]

\* f"await {new_main_name}()"
ExecCode(name) == <<"await ", name, "()">>

\* One pass of the try block of process_ai_message: the dict it returns, or
\* the exception the except clause catches.
ProcessOnce(message, rename) ==
    LET code      == JoinBlocks(message)
        functions == WalkFunctions(code)
        main      == MainFunction(functions)
    IN  IF code = << >>
        THEN [kind |-> "exception", error |-> "No Python code found in the message."]
        ELSE IF ~Parses(code)
        THEN [kind |-> "exception", error |-> "SyntaxError"]
        ELSE IF Len(functions) = 0
        THEN [kind |-> "exception", error |-> "No functions found in the code."]
        ELSE IF main.type = "None"
        THEN [kind |-> "exception", error |-> "No async function found."]
        ELSE IF rename.kind = "error"
        THEN [kind |-> "exception", error |-> "KeyError"]
        ELSE IF rename.kind = "no_match"
        THEN [kind |-> "exception", error |-> "Failed to extract new function name."]
        ELSE [kind |-> "dict",
              program_code |-> RenameCode(code, main.name, rename.name),
              program_name |-> rename.name,
              exec_code    |-> ExecCode(rename.name)]

\* The while retry > 0 loop of process_ai_message: what it returns after
\* `attempts` passes have already failed. When the retries are used up it
\* returns the error text, a str.
RECURSIVE ProcessLoop(_, _, _, _)
ProcessLoop(message, rename, retry, attempts) ==
    IF retry > 0
    THEN LET r == ProcessOnce(message, rename)
         IN  IF r.kind = "dict"
             THEN [result |-> r, attempts |-> attempts + 1]
             ELSE ProcessLoop(message, rename, retry - 1, attempts + 1)
    ELSE [result |-> [kind |-> "str",
                      error |-> "Error processing action response"],
          attempts |-> attempts]

\* ActionAgent.generate_code(messages): one LLM call; a response without
\* "answer" raises RuntimeError("Failed to call LLM").
GenerateCode ==
    /\ action_call = NoCall
    /\ action_call' =
        IF llm_code.kind = "answer"
        THEN [op |-> "generate_code", kind |-> "returned",
              result |-> [kind |-> "answer", answer |-> llm_code.answer],
              attempts |-> 1, failed |-> FALSE]
        ELSE [op |-> "generate_code", kind |-> "raised",
              result |-> [kind |-> "RuntimeError"],
              attempts |-> 1, failed |-> TRUE]
    /\ UNCHANGED <<llm_code, llm_rename>>

\* ActionAgent.process_ai_message(message), called as Kaichi.step calls it:
\* on the message generate_code returned.
ProcessAiMessage ==
    /\ action_call.op = "generate_code"
    /\ action_call.kind = "returned"
    /\ LET message == action_call.result.answer
           out     == ProcessLoop(message, llm_rename, ProcessRetries, 0)
       IN  action_call' = [op |-> "process_ai_message", kind |-> "returned",
                           message |-> message,
                           result |-> out.result, attempts |-> out.attempts,
                           failed |-> out.result.kind # "dict"]
    /\ UNCHANGED <<llm_code, llm_rename>>

\* No LLM answer is pending.
InitAction ==
    /\ llm_code = [kind |-> "error", answer |-> << >>]
    /\ llm_rename = [kind |-> "error", name |-> ""]
    /\ action_call = NoCall

\* The LLM may answer anything.
InitActionInputs ==
    /\ llm_code \in CodeAnswers
    /\ llm_rename \in RenameAnswers
    /\ action_call = NoCall

(***************************************************************************)
(* Critic Agent: CriticCache and CriticAgent.check_task_success            *)
(***************************************************************************)

\* CriticConfig.max_retries of the Critic Agent studied alone (positive, as
\* __post_init__ requires), and its CriticConfig.cache_size.
CriticMaxRetries == 2
CriticCacheSize == 2
\* The defaults of CriticConfig; Kaichi._init_agents leaves both as they are.
CriticDefaultRetries == 5
CriticDefaultCacheSize == 100
\* Depth of nested check_task_success calls at which the interpreter raises
\* RecursionError.
RecursionLimit == 5
\* Largest usage count of a cache entry the model follows.
MaxUsage == 1

\* The task names and code strings check_task_success is called with.
CriticTasks == {<<"a">>, <<"a", "_", "b">>}
CriticCodes == {<<"c">>, <<"b", "_", "c">>}
Context == "ctx"

\* The state argument: an execution state of the Sandbox Runner, None, or
\* (in a nested call) an integer.
ExecState(output, error, return_code) ==
    [kind |-> "state", output |-> output, error |-> error,
     return_code |-> return_code]
NoState == [kind |-> "none"]
IntState(n) == [kind |-> "int", value |-> n]
CriticStates == {ExecState("hi\n", "", 0), NoState}

\* The max_retries argument; None is 0, as `max_retries or ...` treats both
\* alike. A negative argument leaves no retry.
RetryArgs == {0, -1}

\* What the LLM answers to the critic's prompt: an error response, text that
\* does not parse to a JSON object, or a JSON object.
CriticAnswers ==
    {[kind |-> "error"], [kind |-> "unparsable"],
     [kind |-> "verdict", success |-> TRUE, critique |-> ""],
     [kind |-> "verdict", success |-> FALSE, critique |-> "wrong output"]}
\* What the human answers in manual mode.
HumanAnswers == {[success |-> TRUE, critique |-> ""],
                 [success |-> FALSE, critique |-> "wrong output"]}
\* What _human_check_task can return to a call in the given mode.
AskedHuman(mode) ==
    IF mode = "manual" THEN HumanAnswers
    ELSE {[success |-> FALSE, critique |-> ""]}

\* cache_key = f"{task}_{code}"
CacheKey(task, code) == task \o <<"_">> \o code

\* CriticCache keeps its dicts in insertion order; the model keeps them as one
\* sequence of entries [key, value, usage].
CacheIndex(cache, key) ==
    IF \E i \in 1..Len(cache) : cache[i].key = key
    THEN CHOOSE i \in 1..Len(cache) : cache[i].key = key
    ELSE 0

\* CriticCache._remove_least_used: the first key, in insertion order, whose
\* usage count is the minimum.
RemoveLeastUsed(cache) ==
    IF Len(cache) = 0 THEN cache
    ELSE LET min_usage == CHOOSE u \in {cache[i].usage : i \in 1..Len(cache)} :
                              \A i \in 1..Len(cache) : u <= cache[i].usage
             to_remove == CHOOSE i \in 1..Len(cache) :
                              /\ cache[i].usage = min_usage
                              /\ \A j \in 1..(i - 1) : cache[j].usage # min_usage
         IN  SubSeq(cache, 1, to_remove - 1) \o SubSeq(cache, to_remove + 1, Len(cache))

\* A faulty add that stores nothing.
CriticCacheAddNothing(cache, max_size, key, value) == cache

\* CriticCache.add
CriticCacheAdd(cache, max_size, key, value) ==
    LET kept == IF Len(cache) >= max_size THEN RemoveLeastUsed(cache) ELSE cache
        i == CacheIndex(kept, key)
        entry == [key |-> key, value |-> value, usage |-> 0]
    IN  IF i = 0 THEN Append(kept, entry) ELSE [kept EXCEPT ![i] = entry]

\* CriticCache.get: the cache after the call (a hit counts one usage).
CriticCacheGet(cache, key) ==
    LET i == CacheIndex(cache, key)
    IN  IF i = 0 THEN cache ELSE [cache EXCEPT ![i].usage = @ + 1]

\* render_human_message raises unless state is a dict.
RenderFails(state) == state.kind # "state"

\* A cached value holds success and critique; the model also notes in
\* given_for the task and code the verdict was given for.
\* check_task_success and the calls nested in it.  seen lists the value of
\* `retries` in the calls so far, llm_calls counts the LLM calls made.
\*   CheckLoop:   a call from its first line to where it ends or reaches
\*                `await self.llm(...)`;
\*   Answered:    the call from where the LLM's answer is there;
\*   CheckFailed: its except branch, answer being what the LLM had answered
\*                if it was asked.
RECURSIVE CheckLoop(_, _, _, _, _, _, _, _, _)
RECURSIVE CheckFailed(_, _, _, _, _, _, _, _, _, _)
CheckFailed(cache, mode, task, code, state, retries, answer, human, attempts, llm_calls) ==
    IF retries > 0
    THEN CheckLoop(cache, mode, task, code, IntState(retries - 1), 0,
                   human, attempts, llm_calls)
    ELSE [kind |-> "returned", source |-> "error", success |-> FALSE,
          critique |-> IF RenderFails(state)
                       THEN "Failed to render human message"
                       ELSE IF answer.kind = "error" THEN "LLM error"
                       ELSE "parse error",
          cache |-> cache, retries |-> attempts, llm_calls |-> llm_calls]

Answered(cache, mode, task, code, state, retries, answer, human, attempts, llm_calls) ==
    IF answer.kind # "verdict"
    THEN CheckFailed(cache, mode, task, code, state, retries, answer, human, attempts,
                llm_calls + 1)
    ELSE [kind |-> "returned", source |-> "llm",
          success |-> answer.success, critique |-> answer.critique,
          cache |-> CriticCacheAdd(cache, critic_config.cache_size,
                       CacheKey(task, code),
                       [success |-> answer.success, critique |-> answer.critique,
                        given_for |-> <<task, code>>]),
          retries |-> attempts, llm_calls |-> llm_calls + 1]

CheckLoop(cache, mode, task, code, state, max_retries, human, seen, llm_calls) ==
    LET retries == IF max_retries # 0 THEN max_retries
                   ELSE critic_config.max_retries
        cache_key == CacheKey(task, code)
        hit == CacheIndex(cache, cache_key)
        attempts == Append(seen, retries)
    IN  IF Len(seen) >= RecursionLimit
        THEN [kind |-> "raised", exc |-> "RecursionError", cache |-> cache,
              retries |-> seen, llm_calls |-> llm_calls]
        ELSE IF hit # 0
        THEN [kind |-> "returned", source |-> "cache",
              success |-> cache[hit].value.success,
              critique |-> cache[hit].value.critique,
              cache |-> CriticCacheGet(cache, cache_key),
              retries |-> attempts, llm_calls |-> llm_calls]
        ELSE IF mode = "manual"
        THEN [kind |-> "returned", source |-> "human",
              success |-> human.success, critique |-> human.critique,
              cache |-> cache, retries |-> attempts, llm_calls |-> llm_calls]
        ELSE IF RenderFails(state)
        THEN CheckFailed(cache, mode, task, code, state, retries,
                         [kind |-> "none"], human, attempts, llm_calls)
        ELSE [kind |-> "suspended", cache |-> cache, retries |-> attempts,
              llm_calls |-> llm_calls]

\* The call before this one was a check_task_success call for the same task
\* and code and returned a verdict of the LLM or of the cache.
FollowsVerdict(task, code) ==
    /\ critic_call.op = "check_task_success"
    /\ critic_call.task = task
    /\ critic_call.code = code
    /\ critic_call.result.kind = "returned"
    /\ critic_call.result.source \in {"llm", "cache"}

\* The call reaches `await self.llm(...)`: no cached verdict, auto mode and a
\* state that renders. The event loop may run other coroutines until the
\* answer is there.
ReachesLlm(cache, mode, task, code, state) ==
    /\ CacheIndex(cache, CacheKey(task, code)) = 0
    /\ mode = "auto"
    /\ ~RenderFails(state)

\* The local variables of a call suspended at the LLM call.
CriticFrame(task, code, state, max_retries) ==
    [task |-> task, code |-> code, state |-> state, max_retries |-> max_retries,
     follows |-> FollowsVerdict(task, code)]

\* How a check_task_success call that ends is recorded.
CheckEnds(task, code, max_retries, follows, r) ==
    [op |-> "check_task_success", task |-> task, code |-> code,
     max_retries |-> max_retries, follows |-> follows,
     result |-> [f \in (DOMAIN r) \ {"cache"} |-> r[f]]]

\* check_task_success(task, context, code, state, max_retries) from its
\* first line to where it ends or is suspended; human is what the human
\* answers if asked.
CheckTaskSuccessBegin(task, context, code, state, max_retries, human) ==
    /\ BagCardinality(critic_waiting) < Cardinality(Callers)
    /\ UNCHANGED <<critic_mode, critic_config>>
    /\ \E r \in {CheckLoop(critic_cache, critic_mode, task, code, state,
                            max_retries, human, << >>, 0)} :
           IF r.kind = "suspended"
           THEN /\ critic_waiting' = critic_waiting (+)
                       SetToBag({CriticFrame(task, code, state, max_retries)})
                /\ UNCHANGED <<critic_cache, critic_call>>
           ELSE /\ critic_cache' = r.cache
                /\ critic_call' = CheckEnds(task, code, max_retries,
                                            FollowsVerdict(task, code), r)
                /\ UNCHANGED critic_waiting

\* The LLM has answered and the event loop resumes the call: it goes on with
\* the cache as it is by now.
CheckTaskSuccessResume(call, answer) ==
    /\ BagIn(call, critic_waiting)
    /\ LET retries == IF call.max_retries # 0 THEN call.max_retries
                      ELSE critic_config.max_retries
       IN  \E r \in {Answered(critic_cache, critic_mode, call.task, call.code,
                              call.state, retries, answer,
                              [success |-> FALSE, critique |-> ""],
                              <<retries>>, 0)} :
               /\ critic_cache' = r.cache
               /\ critic_call' = CheckEnds(call.task, call.code,
                                           call.max_retries, call.follows, r)
    /\ critic_waiting' = critic_waiting (-) SetToBag({call})
    /\ UNCHANGED <<critic_mode, critic_config>>

\* The Critic Agent of CriticConfig(max_retries, cache_size), no call made.
CriticInit(mode, max_retries, cache_size) ==
    /\ critic_mode = mode
    /\ critic_config = [max_retries |-> max_retries, cache_size |-> cache_size]
    /\ critic_cache = << >>
    /\ critic_call = NoCall
    /\ critic_waiting = EmptyBag

\* The Critic Agent studied alone, in auto mode and in either mode.
InitCritic == CriticInit("auto", CriticMaxRetries, CriticCacheSize)
InitCriticModes ==
    \E mode \in {"auto", "manual"} :
        CriticInit(mode, CriticMaxRetries, CriticCacheSize)

\* The Critic Agent as Kaichi._init_agents makes it.
InitKaichiCritic ==
    CriticInit("auto", CriticDefaultRetries, CriticDefaultCacheSize)

(***************************************************************************)
(* Curriculum Agent: propose_next_task                                     *)
(***************************************************************************)

\* CurriculumConfig.max_retries as the Orchestrator configures it.
CurriculumMaxRetries == 3

\* The max_retries argument of propose_next_task; None is 0.
ProposeArgs == {0, 1, 2, -1}

\* What the LLM answers to a task proposal: an error response, text that
\* json.loads rejects, a JSON object without next_task, or one with it.
ProposalAnswers ==
    {[kind |-> "error"], [kind |-> "bad_json"], [kind |-> "no_next_task"]}
        \cup {[kind |-> "task", next_task |-> t] : t \in Tasks}

\* The answers to the successive proposal prompts of one call.
ProposalRuns == [1..CurriculumMaxRetries -> ProposalAnswers]

\* get_task_context(task): the context starts with f"Task: {task}".
TaskContext(task) == <<"Task: ", task>>

\* `max_retries or self.config.max_retries`
EffectiveRetries(max_retries) ==
    IF max_retries # 0 THEN max_retries ELSE CurriculumMaxRetries

\* A faulty proposal loop that gives up after the first failed attempt.
ProposeOnce(retries, answers, attempts) ==
    IF retries > 0 /\ answers[1].kind = "task"
    THEN [kind |-> "returned", next_task |-> answers[1].next_task,
          context |-> TaskContext(answers[1].next_task), attempts |-> 1]
    ELSE [kind |-> "raised", exc |-> "RuntimeError",
          attempts |-> IF retries > 0 THEN 1 ELSE 0]

\* CurriculumAgent._propose_next_ai_task(retries), attempts proposals having
\* been made before.
RECURSIVE ProposeNextAiTask(_, _, _)
ProposeNextAiTask(retries, answers, attempts) ==
    IF retries <= 0
    THEN [kind |-> "raised", exc |-> "RuntimeError", attempts |-> attempts]
    ELSE LET response == answers[attempts + 1]
         IN  IF response.kind = "task"
             THEN [kind |-> "returned", next_task |-> response.next_task,
                   context |-> TaskContext(response.next_task),
                   attempts |-> attempts + 1]
             ELSE ProposeNextAiTask(retries - 1, answers, attempts + 1)

\* CurriculumAgent.propose_next_task(max_retries) in auto mode.
ProposeNextTask(max_retries, answers) ==
    propose_call' = [op |-> "propose_next_task", max_retries |-> max_retries,
                     answers |-> answers,
                     result |-> ProposeNextAiTask(EffectiveRetries(max_retries),
                                                  answers, 0)]

\* The text of an LLM answer that holds a JSON document: the document
\* alone ("raw"), inside a ```json fence ("fenced"), or with prose around it
\* and no fence ("prose"). body is what json.loads makes of the document.
AnswerShapes == {"raw", "fenced", "prose"}
AnswerBodies ==
    {[kind |-> "bad_json"], [kind |-> "no_next_task"],
     [kind |-> "task", next_task |-> "t1"]}
AnswerTexts ==
    {[kind |-> "error"]}
        \cup {[kind |-> "text", shape |-> sh, body |-> b] :
                  sh \in AnswerShapes, b \in AnswerBodies}

\* extract_json_from_markdown(content): group 1 of the first ```json ... ```
\* block, "" without such a block; json.loads("") raises JSONDecodeError.
ExtractJsonFromMarkdown(content) ==
    IF content.shape = "fenced" THEN content.body ELSE [kind |-> "bad_json"]

\* What _propose_next_ai_task makes of a response of the LLM.
ParsedResponse(response) ==
    IF response.kind = "error" THEN response
    ELSE ExtractJsonFromMarkdown(response)

\* propose_next_task(max_retries) in auto mode, the LLM answering texts.
ProposeNextTaskFromTexts(max_retries, texts) ==
    \E answers \in {[i \in DOMAIN texts |-> ParsedResponse(texts[i])]} :
        propose_call' =
            [op |-> "propose_next_task", max_retries |-> max_retries,
             answers |-> answers, texts |-> texts,
             result |-> ProposeNextAiTask(EffectiveRetries(max_retries),
                                          answers, 0)]

InitProposal == propose_call = NoCall

(***************************************************************************)
(* Orchestrator: Kaichi.reset, step, rollout and learn                     *)
(***************************************************************************)

\* The iteration count at which step reports done.
StepLimit == 3

\* The values of AgentConfig.max_retries the model configures (5 by default).
RetryConfigs == {2, 5}
\* The task argument of learn ("" by default) and its maxloop argument.
LearnTasks == {"", "t1"}
LearnLoops == {1, 2}

\* The answers of the LLM to the successive task proposals of one
\* iteration: all fail, the first names t1, or the second names t2.
LearnProposalRuns ==
    {[i \in 1..5 |-> [kind |-> "error"]],
     [i \in 1..5 |-> [kind |-> "task", next_task |-> "t1"]],
     [i \in 1..5 |-> IF i = 1 THEN [kind |-> "bad_json"]
                     ELSE [kind |-> "task", next_task |-> "t2"]]}

\* What the LLM answers to the code-generation prompt of a step: an error,
\* a message without code, or a message with one async function.
StepCodeAnswers ==
    {[kind |-> "error", answer |-> << >>],
     [kind |-> "answer", answer |-> << >>],
     [kind |-> "answer", answer |-> <<<<Stmt("AsyncFunction", "main", << >>)>>>>]}
\* To a prompt that carries the program and the critique of a step it can
\* also answer with a second program.
StepRevisedAnswers ==
    {[kind |-> "answer",
      answer |-> <<<<Stmt("AsyncFunction", "main",
                          <<Stmt("AsyncFunction", "helper", << >>)>>)>>>>]}
StepCodeAnswersTo(prompt) ==
    IF prompt.set /\ prompt.code # << >>
    THEN StepCodeAnswers \cup StepRevisedAnswers
    ELSE StepCodeAnswers
\* What it answers to the renaming prompt.
StepRenameAnswers == {[kind |-> "name", name |-> "fetch_value"]}
\* What the child process of a step does; what it leaves of its working
\* directory is any of Leaves.
StepRuns ==
    {[kind |-> "exit", returncode |-> 0, stdout |-> "hi\n", stderr |-> ""],
     [kind |-> "exit", returncode |-> 1, stdout |-> "", stderr |-> "ZeroDivisionError"],
     [kind |-> "timeout"],
     [kind |-> "undecodable"]}
\* What the LLM answers to the critic's prompt of a step.
StepVerdicts ==
    {[kind |-> "error"],
     [kind |-> "verdict", success |-> TRUE, critique |-> ""],
     [kind |-> "verdict", success |-> FALSE, critique |-> "wrong output"]}

\* self.messages before the first reset, and [system_message, human_message].
NoMessages == [set |-> FALSE]
MessagesOf(skill_list, code, critique) ==
    [set |-> TRUE, skills |-> skill_list, code |-> code, critique |-> critique]

\* The info dicts: _get_step_info(success, parsed_result), the dict of the
\* except clause of step (it has no "task"), and the dict of the except
\* clause of learn.
NoProgram == [present |-> FALSE]

StepInfo(task, success, parsed_result) ==
    [kind |-> "info", task |-> task, success |-> success,
     program |-> IF success
                 THEN [present |-> TRUE, program_name |-> parsed_result.program_name,
                       program_code |-> parsed_result.program_code]
                 ELSE NoProgram]
ErrorInfo(error) == [kind |-> "error", success |-> FALSE, error |-> error]
LearnErrorInfo(task) ==
    [kind |-> "info", task |-> task, success |-> FALSE, program |-> NoProgram]
NoInfo == [kind |-> "none"]

\* The entry learn_events gets when an iteration has its task, and the entry
\* of an iteration that ended, with how it ended:
\*   outcome: "success" / "failure" (the branch of `if info["success"]` that
\*            ran to its end) or "exception" (the except clause ran)
\*   rollout: the info the rollout returned, NoInfo if there was none
\*   verdict: the critic judged the last step of the rollout successful
\*   added:   the program add_new_skill was invoked with, if it was invoked
\*   updated: update_exploration_progress was called and returned
\*   steps:   the steps of the iteration's rollout that AgentMetrics.update
\*            counted
IterationEvent(source, task) ==
    [source |-> source, task |-> task, outcome |-> "running", rollout |-> NoInfo,
     verdict |-> FALSE, added |-> NoProgram, updated |-> FALSE, steps |-> 0]
EndEvent(event, outcome, rollout, verdict, added, updated) ==
    [event EXCEPT !.outcome = outcome, !.rollout = rollout, !.verdict = verdict,
                  !.added = added, !.updated = updated]

\* Kaichi.learn(task, maxloop) up to its loop test.
Learn(task, maxloop) ==
    /\ kaichi_init.kind = "returned"
    /\ learn_pc = "idle"
    /\ learn_pc' = "loop"
    /\ learn_entry' = "learn"
    /\ learn_task' = task
    /\ learn_given' = task
    /\ learn_maxloop' = maxloop
    /\ learn_loop' = 1
    /\ UNCHANGED <<agent_config, agent_state, learn_info, learn_result,
                   learn_events, success_count, failure_count, step_call,
                   step_waiting>>

\* loop <= maxloop: learn awaits propose_next_task or get_task_context, which
\* await the LLM.
LearnAwaitsTask ==
    /\ learn_pc = "loop"
    /\ learn_loop <= learn_maxloop
    /\ learn_pc' = "task"
    /\ UNCHANGED <<agent_config, agent_state, learn_entry, learn_locals,
                   learn_info, step_call, step_waiting>>

\* The except clause of learn, events being the entries of the iterations
\* with the one that raised: time.sleep (no suspension), info = {"task":
\* task, "success": False}, loop += 1.
LearnExcept(events) ==
    /\ learn_info' = LearnErrorInfo(learn_task')
    /\ learn_loop' = learn_loop + 1
    /\ learn_pc' = "loop"
    /\ learn_events' = events

\* The entries of learn_events with the last one ended.
EventsEnded(outcome, added, updated) ==
    [learn_events EXCEPT ![Len(learn_events)] =
        [EndEvent(@, outcome, learn_info,
                  step_call.raised = "" /\ step_call.success, added, updated)
            EXCEPT !.steps = metrics_steps]]

\* Kaichi.reset(task, context) up to `await retrieve_skills(...)`: the
\* assignments, the reset of the metrics and of the sandbox, the task
\* directory. It raises when the sandbox's reset raises.
\*   same_dir: the task directory, named after the time to the second, is
\*             the directory of the rollout before
\*   still_linked: a cleanup that raises leaves the link to a directory in
\*             the working directory (see CleanupTempDir)
ResetBegin(task, context, same_dir, still_linked) ==
    /\ current_task' = task
    /\ state_context' = context
    /\ iteration' = 0
    /\ metrics_steps' = 0
    /\ rollout_steps' = << >>
    /\ EnvReset(still_linked)
    /\ UNCHANGED messages
    /\ IF env_call'.kind = "raised"
       THEN UNCHANGED <<artifacts, skill_vars>>
       ELSE /\ artifacts' = IF same_dir THEN artifacts ELSE {}
            /\ RetrieveBegin("reset", context)

\* The task, or the exception of the Curriculum Agent, is there: learn is
\* resumed. With a task it awaits rollout, which awaits reset.
\*   answers: the LLM's answers to the task proposals
\*   same_dir, still_linked: as for ResetBegin
LearnTaskReady(answers, same_dir, still_linked) ==
    /\ learn_pc = "task"
    /\ UNCHANGED <<agent_config, learn_entry, learn_given, learn_maxloop,
                   learn_result, success_count, failure_count, step_call,
                   step_waiting>>
    /\ IF learn_task = ""
       THEN ProposeNextTask(agent_max_retries, answers)
       ELSE UNCHANGED propose_call
    /\ LET source == IF learn_task = "" THEN "curriculum" ELSE "get_task_context"
           raised(task) == Append(learn_events,
                                  EndEvent(IterationEvent(source, task),
                                           "exception", NoInfo, FALSE, NoProgram,
                                           FALSE))
       IN  IF learn_task = "" /\ propose_call'.result.kind = "raised"
           THEN /\ learn_task' = learn_task
                /\ LearnExcept(raised(learn_task))
                /\ UNCHANGED <<agent_state, sandbox_vars, skill_vars>>
           ELSE LET task == IF learn_task = "" THEN propose_call'.result.next_task
                            ELSE learn_task
                    ctx  == IF learn_task = "" THEN propose_call'.result.context
                            ELSE TaskContext(learn_task)
                IN  /\ learn_task' = task
                    /\ ResetBegin(task, ctx, same_dir, still_linked)
                    /\ IF env_call'.kind = "raised"
                       THEN LearnExcept(raised(task))
                       ELSE /\ learn_pc' = "retrieve"
                            /\ learn_events' = Append(learn_events,
                                                      IterationEvent(source, task))
                            /\ UNCHANGED <<learn_info, learn_loop>>

\* A task calls reset(task, context) or rollout(task, context) itself:
\* rollout awaits reset.
\*   still_linked: as for ResetBegin
Enter(entry, task, context, still_linked) ==
    /\ kaichi_init.kind = "returned"
    /\ learn_pc = "idle"
    /\ learn_entry' = entry
    /\ ResetBegin(task, context, FALSE, still_linked)
    /\ learn_pc' = IF env_call'.kind = "raised" THEN "raised" ELSE "retrieve"
    /\ UNCHANGED <<agent_config, learn_locals, learn_info, step_call,
                   step_waiting>>
Reset(task, context, still_linked) ==
    Enter("reset", task, context, still_linked)
Rollout(task, context, still_linked) ==
    Enter("rollout", task, context, still_linked)

\* retrieve_skills has returned to reset: self.messages is assigned and
\* reset returns, to rollout or to the task that called it.  Or it has
\* raised: reset and rollout raise, and the except clause of learn runs.
\*   retrieve_ok: list_documents answered
ResetRetrieved(call, retrieve_ok) ==
    /\ learn_pc = "retrieve"
    /\ call.by = "reset"
    /\ UNCHANGED <<agent_config, learn_entry, learn_task, learn_given,
                   learn_maxloop, learn_result, success_count, failure_count,
                   current_task, state_context, iteration, metrics_steps,
                   artifacts, rollout_steps, step_call, step_waiting>>
    /\ IF retrieve_ok
       THEN /\ RetrieveListed(call)
            /\ messages' = MessagesOf(store_call'.result, << >>, "")
            /\ learn_pc' = IF learn_entry = "reset" THEN "returned" ELSE "rollout"
            /\ UNCHANGED <<learn_info, learn_loop, learn_events>>
       ELSE /\ RetrieveRaised(call)
            /\ UNCHANGED messages
            /\ IF learn_entry = "learn"
               THEN LearnExcept([learn_events EXCEPT ![Len(learn_events)] =
                                    EndEvent(@, "exception", NoInfo, FALSE,
                                             NoProgram, FALSE)])
               ELSE /\ learn_pc' = "raised"
                    /\ UNCHANGED <<learn_info, learn_loop, learn_events>>

\* The local variables of a step call suspended in generate_code, in
\* process_ai_message and in check_task_success; by is who awaits it,
\* "rollout" or a task of its own ("task").
StepGenerates(by, prompt) == [by |-> by, pc |-> "generate", prompt |-> prompt]
StepParses(by, ai_message) ==
    [by |-> by, pc |-> "parse", ai_message |-> ai_message]
StepValidates(by, parsed_result, reward, critic) ==
    [by |-> by, pc |-> "validate", parsed_result |-> parsed_result,
     reward |-> reward, critic |-> critic]

\* The suspended steps once call has moved on to the frame next, and once it
\* has ended.
StepMovedOn(call, next) ==
    (step_waiting (-) SetToBag({call})) (+) SetToBag({next})
StepOver(call) == step_waiting (-) SetToBag({call})

\* A step is suspended: the rollout that awaits it waits.
StepSuspended(by) ==
    /\ learn_pc' = IF by = "rollout" THEN "step" ELSE learn_pc
    /\ UNCHANGED <<learn_info, step_call, iteration, metrics_steps, messages,
                   rollout_steps>>

\* A step has returned (messages, reward, done, info). rollout calls the
\* next step unless done, and then returns info to learn or to the task that
\* called it.
StepResult(by, info, done) ==
    IF by = "rollout"
    THEN /\ learn_info' = info
         /\ learn_pc' = IF ~done THEN "rollout"
                        ELSE IF learn_entry = "learn" THEN "finish"
                        ELSE "returned"
    ELSE UNCHANGED <<learn_info, learn_pc>>

\* The except clause of Kaichi.step: the step returns done = True and an
\* info without "task"; the iteration counter and the metrics stay.
StepExcept(by, error, files) ==
    /\ step_call' = [op |-> "step", by |-> by, iteration |-> iteration,
                     raised |-> error, success |-> FALSE, done |-> TRUE,
                     reward |-> 0, program |-> NoProgram]
    /\ artifacts' = files
    /\ UNCHANGED <<iteration, metrics_steps, messages, rollout_steps>>
    /\ StepResult(by, ErrorInfo(error), TRUE)

\* done = (self.state.iteration >= 3 or success)
StepDone(count, success) == count >= StepLimit \/ success

\* Kaichi.step() up to `await self._generate_code()`. Before the first
\* reset there is no self.messages: the AttributeError of _validate_state is
\* caught and the return statement of the except clause raises it again.
\* A rollout has reset before it calls step.
StepBegin(by) ==
    /\ BagCardinality(step_waiting) < Cardinality(Callers)
    /\ UNCHANGED <<agent_config, learn_entry, learn_locals, current_task,
                   state_context, artifacts>>
    /\ IF messages.set
       THEN /\ step_waiting' = step_waiting (+)
                                   SetToBag({StepGenerates(by, messages)})
            /\ StepSuspended(by)
       ELSE /\ by = "task"
            /\ step_call' = [op |-> "step", by |-> by, iteration |-> iteration,
                             raised |-> "AttributeError", success |-> FALSE,
                             done |-> FALSE, reward |-> 0, program |-> NoProgram]
            /\ UNCHANGED <<learn_info, learn_pc, iteration, metrics_steps,
                           messages, rollout_steps, step_waiting>>

\* rollout: `await self.step()`
RolloutStep ==
    /\ learn_pc = "rollout"
    /\ StepBegin("rollout")

\* process_ai_message gets as far as asking the LLM for a name: the message
\* has code that parses and holds an async function.
AsksForName(ai_message) ==
    ProcessOnce(ai_message, [kind |-> "name", name |-> "main"]).kind = "dict"

\* The steps suspended in generate_code.
GeneratingSteps == {call \in BagToSet(step_waiting) : call.pc = "generate"}

\* The LLM has answered generate_code and the step is resumed: it awaits
\* process_ai_message, which awaits the LLM unless it fails before; the str
\* it returns then makes parsed_result["program_code"] raise TypeError.
\*   answer: the LLM's answer to the code-generation prompt
StepGenerated(call, answer) ==
    /\ BagIn(call, step_waiting)
    /\ call.pc = "generate"
    /\ UNCHANGED <<agent_config, learn_entry, learn_locals, current_task,
                   state_context>>
    /\ IF answer.kind # "answer"
       THEN \* generate_code raised RuntimeError
            /\ step_waiting' = StepOver(call)
            /\ StepExcept(call.by, "RuntimeError", artifacts)
       ELSE IF ~AsksForName(answer.answer)
       THEN /\ step_waiting' = StepOver(call)
            /\ StepExcept(call.by, "TypeError", artifacts)
       ELSE /\ step_waiting' = StepMovedOn(call, StepParses(call.by, answer.answer))
            /\ UNCHANGED <<learn_info, learn_pc, step_call, iteration,
                           metrics_steps, messages, artifacts, rollout_steps>>

\* check_task_success has returned to the step, or raised: the rest of the
\* step, with AgentState as it is now.  files are the files the step has
\* written since it was resumed.
StepJudges(by, parsed_result, reward, files) ==
    IF critic_call'.result.kind = "raised"
    THEN StepExcept(by, critic_call'.result.exc, artifacts \cup files)
    ELSE LET success  == critic_call'.result.success
             critique == critic_call'.result.critique
             done     == StepDone(iteration + 1, success)
         IN  /\ artifacts' = artifacts \cup files \cup {<<iteration, "json">>}
             /\ messages' = MessagesOf(<< >>, parsed_result.program_code, critique)
             /\ rollout_steps' = Append(rollout_steps,
                                        [code |-> parsed_result.program_code,
                                         critique |-> critique])
             /\ iteration' = iteration + 1
             /\ metrics_steps' = metrics_steps + 1
             /\ step_call' =
                    [op |-> "step", by |-> by, iteration |-> iteration + 1,
                     raised |-> "", success |-> success, done |-> done,
                     reward |-> reward,
                     program |-> StepInfo(current_task, success,
                                          parsed_result).program]
             /\ StepResult(by, StepInfo(current_task, success, parsed_result),
                           done)

\* The LLM has answered the renaming prompt and the step is resumed: it
\* writes step_NNN.py, runs the code in the sandbox (subprocess.run blocks
\* the thread) and awaits check_task_success, which awaits the LLM unless it
\* ends before.
\*   rename: the LLM's answer to the renaming prompt
\*   run:    what the child process does
\*   leaves: what the child leaves of its working directory
StepParsed(call, rename, run, leaves) ==
    /\ BagIn(call, step_waiting)
    /\ call.pc = "parse"
    /\ UNCHANGED <<agent_config, learn_entry, learn_locals, current_task,
                   state_context>>
    /\ LET parsed_result ==
               ProcessLoop(call.ai_message, rename, ProcessRetries, 0).result
           py_file == <<iteration, "py">>
       IN  IF parsed_result.kind # "dict"
           THEN \* parsed_result is a str: parsed_result["program_code"] raises
                /\ step_waiting' = StepOver(call)
                /\ StepExcept(call.by, "TypeError", artifacts)
                /\ UNCHANGED <<sandbox_vars, critic_vars>>
           ELSE /\ EnvStep(parsed_result.program_code, run, leaves)
                /\ IF env_call'.kind = "raised"
                   THEN /\ step_waiting' = StepOver(call)
                        /\ StepExcept(call.by, env_call'.exc,
                                      artifacts \cup {py_file})
                        /\ UNCHANGED critic_vars
                   ELSE LET state == ExecState(env_call'.state.output,
                                               env_call'.state.error,
                                               env_call'.state.return_code)
                            critic == CriticFrame(<<current_task>>,
                                          parsed_result.program_code, state,
                                          agent_max_retries)
                        IN  /\ CheckTaskSuccessBegin(<<current_task>>,
                                   state_context, parsed_result.program_code,
                                   state, agent_max_retries,
                                   [success |-> FALSE, critique |-> ""])
                            /\ IF critic_waiting' # critic_waiting
                               THEN /\ step_waiting' = StepMovedOn(call,
                                           StepValidates(call.by, parsed_result,
                                                         env_call'.reward, critic))
                                    /\ artifacts' = artifacts \cup {py_file}
                                    /\ UNCHANGED <<learn_info, learn_pc,
                                                   step_call, iteration,
                                                   metrics_steps, messages,
                                                   rollout_steps>>
                               ELSE /\ step_waiting' = StepOver(call)
                                    /\ StepJudges(call.by, parsed_result,
                                                  env_call'.reward, {py_file})

\* The LLM has answered the critic's prompt: check_task_success and then
\* the step are resumed.
\*   verdict: the LLM's answer to the critic's prompt
StepValidated(call, verdict) ==
    /\ BagIn(call, step_waiting)
    /\ call.pc = "validate"
    /\ UNCHANGED <<agent_config, learn_entry, learn_locals, current_task,
                   state_context>>
    /\ CheckTaskSuccessResume(call.critic, verdict)
    /\ step_waiting' = StepOver(call)
    /\ StepJudges(call.by, call.parsed_result, call.reward, {})

\* The end of a loop iteration of learn.
LearnEndIteration(outcome, added, updated, info) ==
    /\ learn_events' = EventsEnded(outcome, added, updated)
    /\ learn_info' = info
    /\ learn_loop' = learn_loop + 1
    /\ learn_pc' = "loop"

\* learn has the info of the rollout. After a success it awaits
\* add_new_skill; else it counts the failure and updates the progress.
\*   save: how the Curriculum Agent's _save_state ends
LearnFinish(save) ==
    /\ learn_pc = "finish"
    /\ UNCHANGED <<agent_config, agent_state, learn_entry, learn_task,
                   learn_given, learn_maxloop, learn_result, success_count,
                   step_call, step_waiting>>
    /\ IF learn_info.success
       THEN /\ AddBegin("learn", <<learn_info.program.program_name>>,
                        learn_info.program.program_code)
            /\ learn_pc' = "add"
            /\ UNCHANGED <<learn_info, learn_loop, learn_events, failure_count>>
            /\ UNCHANGED progress_vars
       ELSE /\ failure_count' = failure_count + 1
            /\ UNCHANGED skill_vars
            /\ IF learn_info.kind = "error"
               THEN \* info["task"] raises KeyError
                    /\ LearnEndIteration("exception", NoProgram, FALSE,
                                         LearnErrorInfo(learn_task))
                    /\ UNCHANGED progress_vars
               ELSE /\ UpdateExplorationProgress(learn_info.task, FALSE, save)
                    /\ IF save = "saved"
                       THEN LearnEndIteration("failure", NoProgram, TRUE, learn_info)
                       ELSE LearnEndIteration("exception", NoProgram, FALSE,
                                              LearnErrorInfo(learn_task))

\* The add_new_skill call learn awaits is resumed. When it ends learn goes
\* on: the except clause if it raised, else success_count and the update of
\* the progress.
\*   gen_ok: as for SkillResumes
LearnAdded(call, gen_ok, save) ==
    /\ learn_pc = "add"
    /\ call.by = "learn"
    /\ SkillResumes(call, gen_ok)
    /\ UNCHANGED <<agent_config, agent_state, learn_entry, learn_task,
                   learn_given, learn_maxloop, learn_result, failure_count,
                   step_call, step_waiting>>
    /\ IF skill_call'.op # "add_new_skill"
       THEN \* suspended at its next await
            /\ UNCHANGED <<learn_pc, learn_info, learn_loop, learn_events,
                           success_count>>
            /\ UNCHANGED progress_vars
       ELSE IF skill_call'.kind = "raised"
       THEN \* neither counter is reached
            /\ LearnEndIteration("exception", learn_info.program, FALSE,
                                 LearnErrorInfo(learn_task))
            /\ UNCHANGED success_count
            /\ UNCHANGED progress_vars
       ELSE /\ success_count' = success_count + 1
            /\ UpdateExplorationProgress(learn_info.task, TRUE, save)
            /\ IF save = "saved"
               THEN LearnEndIteration("success", learn_info.program, TRUE,
                                      learn_info)
               ELSE LearnEndIteration("exception", learn_info.program, FALSE,
                                      LearnErrorInfo(learn_task))

\* learn returns its metrics once loop > maxloop.
LearnReturn ==
    /\ learn_pc = "loop"
    /\ learn_loop > learn_maxloop
    /\ learn_pc' = "returned"
    /\ learn_result' = [total_steps |-> metrics_steps]
    /\ UNCHANGED <<agent_config, agent_state, learn_entry, learn_task,
                   learn_given, learn_maxloop, learn_loop, learn_info,
                   learn_events, success_count, failure_count, step_call,
                   step_waiting>>

(***************************************************************************)
(* The caches of the agents: SkillCache, ActionCache, CriticCache and the   *)
(* Curriculum Agent's QAManager                                             *)
(***************************************************************************)

\* The cache size the agents are configured with in the model, the default
\* max_size of the cache classes, and the latest clock reading followed.
CacheSize == 2
DefaultMaxSize == 100
MaxCacheClock == 6

CacheKeys == {"k1", "k2", "k3"}
\* Which agent's cache is started from a persisted file.
CacheKinds == {"skill", "action", "critic", "qa"}

\* add(key, value) at time now: with len(cache) >= max_size the least used
\* key goes first (_remove_least_used, the same in the four classes); the
\* key is then set with usage count 0. Entries are [key, usage, last_used].
EntryAdd(entries, max_size, key, now) ==
    LET kept  == IF Len(entries) >= max_size THEN RemoveLeastUsed(entries)
                 ELSE entries
        i     == CacheIndex(kept, key)
        entry == [key |-> key, usage |-> 0, last_used |-> now]
    IN  IF i = 0 THEN Append(kept, entry) ELSE [kept EXCEPT ![i] = entry]

\* get(key) at time now: a hit counts one usage and sets last_used.
EntryGet(entries, key, now) ==
    LET i == CacheIndex(entries, key)
    IN  IF i = 0 THEN entries
        ELSE [entries EXCEPT ![i].usage = @ + 1, ![i].last_used = now]

\* The entry add removes from a full cache, None if it removes none.
Evicted(entries, max_size) ==
    IF Len(entries) >= max_size /\ Len(entries) > 0
    THEN LET kept == RemoveLeastUsed(entries)
         IN  CHOOSE e \in {entries[i] : i \in 1..Len(entries)} :
                 \A j \in 1..Len(kept) : kept[j].key # e.key
    ELSE None

\* The persisted keys added one by one to a new cache, the first at time 1.
RECURSIVE AddAll(_, _, _, _)
AddAll(entries, max_size, keys, now) ==
    IF keys = << >> THEN entries
    ELSE AddAll(EntryAdd(entries, max_size, Head(keys), now), max_size,
                Tail(keys), now + 1)

\* An entry of a cache file.
Persisted(key, usage, last_used) ==
    [key |-> key, usage |-> usage, last_used |-> last_used]

\* The cache files an earlier run may have left, in the order of the file:
\* what to_dict gives after add(k1); after add(k1), add(k2); after add(k2),
\* add(k1); after three adds; and after add(k1), add(k2) and two get(k1).
\* The readings of time.time() are counted from the first of that run.
PersistedFiles ==
    {<<Persisted("k1", 0, 1)>>,
     <<Persisted("k1", 0, 1), Persisted("k2", 0, 2)>>,
     <<Persisted("k2", 0, 1), Persisted("k1", 0, 2)>>,
     <<Persisted("k1", 0, 1), Persisted("k2", 0, 2), Persisted("k3", 0, 3)>>,
     <<Persisted("k1", 2, 4), Persisted("k2", 0, 2)>>}

\* The keys of a cache file.
KeysOf(file) == [i \in 1..Len(file) |-> file[i].key]

\* ActionCache.from_dict: the three dicts of the file become the dicts of
\* the cache as they are, usage counts and times of last use included.
LoadAll(file) == file

\* QAManager.from_dict: every pair of the file is set with usage count 0 (a
\* QAManager keeps no time of last use).
LoadPairs(file) ==
    [i \in 1..Len(file) |-> [key |-> file[i].key, usage |-> 0, last_used |-> 0]]

\* The latest time.time() reading a cache file holds.
RECURSIVE LatestReading(_)
LatestReading(file) ==
    IF file = << >> THEN 0
    ELSE LET rest == LatestReading(Tail(file))
         IN  IF Head(file).last_used > rest THEN Head(file).last_used ELSE rest

\* An agent is constructed on a checkpoint directory that holds its file.
\*   kind "skill":  SkillManager._load_skills adds every entry to the
\*                  SkillCache(config.cache_size) of __init__
\*   kind "critic": CriticAgent._load_state makes a new CriticCache() and adds
\*                  every entry to it
\*   kind "action": ActionAgent._load_state replaces the cache by
\*                  ActionCache.from_dict(data), made by cls()
\*   kind "qa":     QAManager.from_dict(data, config.cache_size) sets every
\*                  pair
\* The clock of the new run goes on from the latest reading the loaded
\* entries hold: time.time() does not go back between two runs.
CacheStart(kind, file) ==
    /\ cache_call = NoCall
    /\ cache_max_size' = IF kind \in {"skill", "qa"} THEN CacheSize
                         ELSE DefaultMaxSize
    /\ cache_entries' = CASE kind \in {"skill", "critic"} ->
                                 AddAll(<< >>, cache_max_size', KeysOf(file), 1)
                          [] kind = "action" -> LoadAll(file)
                          [] kind = "qa" -> LoadPairs(file)
    /\ cache_clock' = LatestReading(cache_entries')
    /\ cache_call' = [op |-> "start", kind |-> kind, key |-> "",
                      before |-> cache_entries, evicted |-> None]

\* The class of the cache: the kind it was started as from a file, "" for a
\* cache constructed without one.
CacheKindOf == IF cache_call = NoCall THEN "" ELSE cache_call.kind

\* add(key, value)
CacheAdd(key) ==
    /\ cache_entries' = EntryAdd(cache_entries, cache_max_size, key, cache_clock + 1)
    /\ cache_clock' = cache_clock + 1
    /\ cache_call' = [op |-> "add", kind |-> CacheKindOf, key |-> key,
                      before |-> cache_entries,
                      evicted |-> Evicted(cache_entries, cache_max_size)]
    /\ UNCHANGED cache_max_size

\* get(key)
CacheGet(key) ==
    /\ cache_entries' = EntryGet(cache_entries, key, cache_clock + 1)
    /\ cache_clock' = IF CacheIndex(cache_entries, key) # 0 THEN cache_clock + 1
                      ELSE cache_clock
    /\ cache_call' = [op |-> "get", kind |-> CacheKindOf, key |-> key,
                      before |-> cache_entries, evicted |-> None]
    /\ UNCHANGED cache_max_size

\* A cache constructed with the configured size, no file being there.
InitCache ==
    /\ cache_entries = << >>
    /\ cache_max_size = CacheSize
    /\ cache_clock = 0
    /\ cache_call = NoCall

\* The fields of CurriculumConfig: the keywords its constructor takes.
CurriculumConfigFields ==
    {"ckpt_dir", "mode", "source_name", "source_content", "project_name",
     "max_retries", "log_level", "cache_size", "warm_up"}

\* The keywords _init_agents gives CurriculumConfig.
CurriculumKeywords ==
    {"ckpt_dir", "observation_dir", "mode", "max_retries", "log_level",
     "cache_size"}

\* The constructor of a configuration dataclass: TypeError for a keyword that
\* is not one of its fields.
ConfigInit(fields, keywords) ==
    IF keywords \subseteq fields THEN [kind |-> "returned", exc |-> ""]
    ELSE [kind |-> "raised", exc |-> "TypeError"]

\* _init_agents: an exception of a configuration or of an agent's constructor
\* becomes RuntimeError('Agent initialization failed').  ActionConfig,
\* CriticConfig and SkillManagerConfig are given fields of theirs.
InitAgents(curriculum_fields) ==
    IF ConfigInit(curriculum_fields, CurriculumKeywords).kind = "raised"
    THEN [kind |-> "raised", exc |-> "RuntimeError"]
    ELSE [kind |-> "returned", exc |-> ""]

\* Kaichi(config) with resume = False: _setup_logging opens
\* <ckpt_dir>/agent.log (FileNotFoundError without the directory), then the
\* environment and the agents are constructed.
KaichiInit(ckpt_dir_exists, curriculum_fields) ==
    IF ~ckpt_dir_exists THEN [kind |-> "raised", exc |-> "FileNotFoundError"]
    ELSE InitAgents(curriculum_fields)

\* How Kaichi(config) can end: it raises FileNotFoundError without the
\* checkpoint directory and RuntimeError with it, because observation_dir is
\* no field of CurriculumConfig. The constructor returns for no
\* configuration, so there is no agent on which reset, step, rollout or
\* learn could be called: their actions below are never enabled.
KaichiOutcomes ==
    {KaichiInit(ckpt_dir_exists, CurriculumConfigFields) :
        ckpt_dir_exists \in BOOLEAN}

\* What the statements of __init__ assign, no method called yet.
AgentFields ==
    /\ learn_entry = "none"
    /\ learn_pc = "idle"
    /\ learn_task = ""
    /\ learn_given = ""
    /\ learn_maxloop = 0
    /\ learn_loop = 0
    /\ learn_info = NoInfo
    /\ learn_result = NoCall
    /\ learn_events = << >>
    /\ current_task = ""
    /\ state_context = << >>
    /\ iteration = 0
    /\ success_count = 0
    /\ failure_count = 0
    /\ metrics_steps = 0
    /\ messages = NoMessages
    /\ artifacts = {}
    /\ rollout_steps = << >>
    /\ step_call = NoCall
    /\ step_waiting = EmptyBag
    /\ InitCache

\* Kaichi(config) has ended, in any of the ways it can, for any of the
\* configured max_retries values.
InitKaichi ==
    /\ kaichi_init \in KaichiOutcomes
    /\ agent_max_retries \in RetryConfigs
    /\ AgentFields

\* No Kaichi is constructed: an agent is constructed and called by itself.
InitNoKaichi ==
    /\ kaichi_init = [kind |-> "none", exc |-> ""]
    /\ agent_max_retries = 5
    /\ AgentFields

(***************************************************************************)
(* Specifications                                                          *)
(***************************************************************************)

Init == InitProgress /\ InitSandbox /\ InitSkill /\ InitAction /\ InitCritic
        /\ InitProposal /\ InitNoKaichi

\* The Curriculum Agent alone.
NextProgress ==
    \E task \in Tasks, success \in BOOLEAN, save \in SaveOutcomes :
        /\ UpdateExplorationProgress(task, success, save)
        /\ UNCHANGED <<sandbox_vars, skill_vars, action_vars,
                       critic_vars, proposal_vars, kaichi_vars>>

SpecProgress == Init /\ [][NextProgress]_vars

\* Latest time.time() the model follows when the agent is started again.
MaxClock == 4

\* The Curriculum Agent, stopped and started again on its checkpoint directory.
NextProgressResume ==
    \/ \E task \in Tasks, success \in BOOLEAN, save \in SaveOutcomes :
           /\ clock < MaxClock
           /\ UpdateExplorationProgress(task, success, save)
           /\ UNCHANGED <<sandbox_vars, skill_vars, action_vars,
                          critic_vars, proposal_vars, kaichi_vars>>
    \/ /\ LoadState
       /\ UNCHANGED <<sandbox_vars, skill_vars, action_vars,
                      critic_vars, proposal_vars, kaichi_vars>>

SpecProgressResume == Init /\ [][NextProgressResume]_vars

\* The TaskProgress of agents/task.py alone.
InitWithCounters ==
    InitCountedProgress /\ InitSandbox /\ InitSkill /\ InitAction /\ InitCritic
        /\ InitProposal /\ InitNoKaichi

NextCountedProgress ==
    \/ \E task \in Tasks, success \in BOOLEAN :
           /\ CountedCall(task, success)
           /\ UNCHANGED <<sandbox_vars, skill_vars, action_vars,
                          critic_vars, proposal_vars, kaichi_vars>>
    \/ /\ task_progress.iteration_count < MaxIterationCount
       /\ IncrementIteration
       /\ UNCHANGED <<sandbox_vars, skill_vars, action_vars,
                      critic_vars, proposal_vars, kaichi_vars>>

SpecCountedProgress == InitWithCounters /\ [][NextCountedProgress]_vars

\* The Sandbox Runner alone.
NextSandbox ==
    \/ \E still_linked \in BOOLEAN :
           /\ EnvReset(still_linked)
           /\ UNCHANGED <<progress_vars, skill_vars, action_vars,
                       critic_vars, proposal_vars, kaichi_vars>>
    \/ \E code \in Codes, run \in ChildRuns, leaves \in Leaves :
           /\ EnvStep(code, run, leaves)
           /\ UNCHANGED <<progress_vars, skill_vars, action_vars,
                       critic_vars, proposal_vars, kaichi_vars>>
    \/ \E still_linked \in BOOLEAN :
       /\ EnvClose(still_linked)
       /\ UNCHANGED <<progress_vars, skill_vars, action_vars,
                       critic_vars, proposal_vars, kaichi_vars>>

SpecSandbox == Init /\ [][NextSandbox]_vars

\* The Skill Manager of a small library, its callers overlapping their
\* add_new_skill calls.
NextSkill ==
    \/ \E in \in SkillInputs :
           /\ ExtraDocsAhead <= MaxExtraDocs
           /\ AddBegin("task", in[1], in[2])
           /\ UNCHANGED <<progress_vars, sandbox_vars, action_vars,
                          critic_vars, proposal_vars, kaichi_vars>>
    \/ \E call \in BagToSet(skill_waiting), create_ok \in BOOLEAN :
           /\ DatasetAnswers(call, create_ok)
           /\ UNCHANGED <<progress_vars, sandbox_vars, action_vars,
                          critic_vars, proposal_vars, kaichi_vars>>
    \/ \E call \in BagToSet(skill_waiting), gen_ok \in BOOLEAN :
           /\ SkillResumes(call, gen_ok)
           /\ UNCHANGED <<progress_vars, sandbox_vars, action_vars,
                          critic_vars, proposal_vars, kaichi_vars>>

SpecSkill == Init /\ [][NextSkill]_vars

\* The Skill Manager on a library filled up to the dataset's page size: the
\* unrelated skills are added one call after the other, the names under
\* study by callers that overlap their calls.
NextFilledSkill ==
    \/ \E in \in FilledSkillInputs \ StudyInputs :
           /\ skill_waiting = EmptyBag
           /\ ExtraDocs <= MaxExtraDocs
           /\ AddBegin("task", in[1], in[2])
           /\ UNCHANGED <<progress_vars, sandbox_vars, action_vars,
                          critic_vars, proposal_vars, kaichi_vars>>
    \/ \E in \in FilledSkillInputs \cap StudyInputs :
           /\ ExtraDocsAhead <= MaxExtraDocs
           /\ AddBegin("task", in[1], in[2])
           /\ UNCHANGED <<progress_vars, sandbox_vars, action_vars,
                          critic_vars, proposal_vars, kaichi_vars>>
    \/ \E call \in BagToSet(skill_waiting), create_ok \in BOOLEAN :
           /\ DatasetAnswers(call, create_ok)
           /\ UNCHANGED <<progress_vars, sandbox_vars, action_vars,
                          critic_vars, proposal_vars, kaichi_vars>>
    \/ \E call \in BagToSet(skill_waiting), gen_ok \in BOOLEAN :
           /\ SkillResumes(call, gen_ok)
           /\ UNCHANGED <<progress_vars, sandbox_vars, action_vars,
                          critic_vars, proposal_vars, kaichi_vars>>

SpecFilledSkill == Init /\ [][NextFilledSkill]_vars

\* The Skill Manager of a small library with the calls that read it, and
\* with a new SkillManager being constructed over the same checkpoint
\* directory and dataset.
NextLibrary ==
    \/ \E in \in LibraryInputs :
           /\ ExtraDocsAhead <= MaxExtraDocs
           /\ AddBegin("task", in[1], in[2])
           /\ UNCHANGED <<progress_vars, sandbox_vars, action_vars,
                          critic_vars, proposal_vars, kaichi_vars>>
    \/ \E call \in BagToSet(skill_waiting), create_ok \in BOOLEAN :
           /\ DatasetAnswers(call, create_ok)
           /\ UNCHANGED <<progress_vars, sandbox_vars, action_vars,
                          critic_vars, proposal_vars, kaichi_vars>>
    \/ \E call \in BagToSet(skill_waiting), gen_ok \in BOOLEAN :
           /\ SkillResumes(call, gen_ok)
           /\ UNCHANGED <<progress_vars, sandbox_vars, action_vars,
                          critic_vars, proposal_vars, kaichi_vars>>
    \/ \E resume \in BOOLEAN :
           /\ skill_waiting = EmptyBag
           /\ SkillManagerInit(resume)
           /\ UNCHANGED <<progress_vars, sandbox_vars, action_vars, critic_vars,
                          proposal_vars, kaichi_vars>>
    \/ \E query \in LibraryQueries :
           /\ RetrieveBegin("task", query)
           /\ UNCHANGED <<progress_vars, sandbox_vars, action_vars, critic_vars,
                          proposal_vars, kaichi_vars>>
    \/ \E in \in LibraryInputs :
           /\ GetSkill(in[1])
           /\ UNCHANGED <<progress_vars, sandbox_vars, action_vars, critic_vars,
                          proposal_vars, kaichi_vars>>
    \/ /\ ListSkills
       /\ UNCHANGED <<progress_vars, sandbox_vars, action_vars, critic_vars,
                      proposal_vars, kaichi_vars>>

SpecLibrary == Init /\ [][NextLibrary]_vars

\* The Action Agent with any LLM answers.
InitWithLlm ==
    InitProgress /\ InitSandbox /\ InitSkill /\ InitActionInputs /\ InitCritic
        /\ InitProposal /\ InitNoKaichi

NextAction ==
    \/ /\ GenerateCode
       /\ UNCHANGED <<progress_vars, sandbox_vars, skill_vars,
                       critic_vars, proposal_vars, kaichi_vars>>
    \/ /\ ProcessAiMessage
       /\ UNCHANGED <<progress_vars, sandbox_vars, skill_vars,
                       critic_vars, proposal_vars, kaichi_vars>>

SpecAction == InitWithLlm /\ [][NextAction]_vars

\* The Critic Agent alone, in either mode.
InitWithModes ==
    InitProgress /\ InitSandbox /\ InitSkill /\ InitAction /\ InitCriticModes
        /\ InitProposal /\ InitNoKaichi

NextCritic ==
    \/ \E task \in CriticTasks, code \in CriticCodes,
          state \in CriticStates, max_retries \in RetryArgs,
          human \in AskedHuman(critic_mode) :
           /\ \A i \in 1..Len(critic_cache) : critic_cache[i].usage < MaxUsage
           /\ CheckTaskSuccessBegin(task, Context, code, state,
                                    max_retries, human)
           /\ UNCHANGED <<progress_vars, sandbox_vars, skill_vars,
                          action_vars, proposal_vars, kaichi_vars>>
    \/ \E call \in BagToSet(critic_waiting), answer \in CriticAnswers :
           /\ CheckTaskSuccessResume(call, answer)
           /\ UNCHANGED <<progress_vars, sandbox_vars, skill_vars,
                          action_vars, proposal_vars, kaichi_vars>>

SpecCritic == InitWithModes /\ [][NextCritic]_vars

\* Task proposal by the Curriculum Agent alone.
NextProposal ==
    \E max_retries \in ProposeArgs, answers \in ProposalRuns :
        /\ ProposeNextTask(max_retries, answers)
        /\ UNCHANGED <<progress_vars, sandbox_vars, skill_vars,
                       action_vars, critic_vars, kaichi_vars>>

SpecProposal == Init /\ [][NextProposal]_vars

\* One task proposal from the texts the LLM answers with (a call does not
\* depend on the calls before it).
NextExtraction ==
    \E max_retries \in ProposeArgs,
       texts \in [1..CurriculumMaxRetries -> AnswerTexts] :
        /\ propose_call = NoCall
        /\ ProposeNextTaskFromTexts(max_retries, texts)
        /\ UNCHANGED <<progress_vars, sandbox_vars, skill_vars, action_vars,
                       critic_vars, kaichi_vars>>

SpecExtraction == Init /\ [][NextExtraction]_vars

\* Kaichi(config) with any configured max_retries, and the one learn call
\* main would make on the agent; the constructor raises, so no learn call
\* begins.
InitWithConfigs ==
    InitProgress /\ InitSandbox /\ InitSkill /\ InitAction /\ InitKaichiCritic
        /\ InitProposal /\ InitKaichi

\* main awaits agent.learn() and no other task calls the agent: the event
\* loop resumes learn and the calls it awaits, one after the other.
NextKaichi ==
    \/ \E task \in LearnTasks, maxloop \in LearnLoops :
           /\ Learn(task, maxloop)
           /\ UNCHANGED <<progress_vars, sandbox_vars, skill_vars, action_vars,
                          critic_vars, proposal_vars,
                          cache_vars>>
    \/ /\ LearnAwaitsTask
       /\ UNCHANGED <<progress_vars, sandbox_vars, skill_vars, action_vars,
                      critic_vars, proposal_vars, cache_vars>>
    \/ \E answers \in LearnProposalRuns, same_dir \in BOOLEAN,
          still_linked \in BOOLEAN :
           /\ LearnTaskReady(answers, same_dir, still_linked)
           /\ UNCHANGED <<progress_vars, action_vars, critic_vars, cache_vars>>
    \/ \E call \in BagToSet(skill_waiting), create_ok \in BOOLEAN :
           /\ DatasetAnswers(call, create_ok)
           /\ UNCHANGED <<progress_vars, sandbox_vars, action_vars,
                          critic_vars, proposal_vars, kaichi_vars>>
    \/ \E call \in BagToSet(skill_waiting), retrieve_ok \in BOOLEAN :
           /\ ResetRetrieved(call, retrieve_ok)
           /\ UNCHANGED <<progress_vars, sandbox_vars, action_vars,
                          critic_vars, proposal_vars,
                          cache_vars>>
    \/ /\ RolloutStep
       /\ UNCHANGED <<progress_vars, sandbox_vars, skill_vars, action_vars,
                      critic_vars, proposal_vars, cache_vars>>
    \/ \E call \in GeneratingSteps :
           \E answer \in StepCodeAnswersTo(call.prompt) :
               /\ StepGenerated(call, answer)
               /\ UNCHANGED <<progress_vars, sandbox_vars, skill_vars,
                              action_vars, critic_vars, proposal_vars, cache_vars>>
    \/ \E call \in BagToSet(step_waiting), rename \in StepRenameAnswers,
          run \in StepRuns, leaves \in Leaves :
           /\ StepParsed(call, rename, run, leaves)
           /\ UNCHANGED <<progress_vars, skill_vars, action_vars,
                          proposal_vars, cache_vars>>
    \/ \E call \in BagToSet(step_waiting), verdict \in StepVerdicts :
           /\ StepValidated(call, verdict)
           /\ UNCHANGED <<progress_vars, sandbox_vars, skill_vars, action_vars,
                          proposal_vars, cache_vars>>
    \/ \E save \in SaveOutcomes :
           /\ LearnFinish(save)
           /\ UNCHANGED <<sandbox_vars, action_vars, critic_vars, proposal_vars, cache_vars>>
    \/ \E call \in BagToSet(skill_waiting), gen_ok \in BOOLEAN,
          save \in SaveOutcomes :
           /\ LearnAdded(call, gen_ok, save)
           /\ UNCHANGED <<sandbox_vars, action_vars, critic_vars, proposal_vars, cache_vars>>
    \/ /\ LearnReturn
       /\ UNCHANGED <<progress_vars, sandbox_vars, skill_vars, action_vars,
                      critic_vars, proposal_vars, cache_vars>>

SpecKaichi == InitWithConfigs /\ [][NextKaichi]_vars


\* One cache: started from a file or not, then any add and get calls.
NextCache ==
    \/ \E kind \in CacheKinds, file \in PersistedFiles :
           /\ CacheStart(kind, file)
           /\ UNCHANGED <<progress_vars, sandbox_vars, skill_vars, action_vars,
                          critic_vars, proposal_vars, learn_vars>>
    \/ \E key \in CacheKeys :
           /\ cache_clock < MaxCacheClock
           /\ CacheAdd(key)
           /\ UNCHANGED <<progress_vars, sandbox_vars, skill_vars, action_vars,
                          critic_vars, proposal_vars, learn_vars>>
    \/ \E key \in CacheKeys :
           /\ cache_clock < MaxCacheClock
           /\ CacheGet(key)
           /\ UNCHANGED <<progress_vars, sandbox_vars, skill_vars, action_vars,
                          critic_vars, proposal_vars, learn_vars>>

SpecCache == Init /\ [][NextCache]_vars

(***************************************************************************)
(* Properties of the Curriculum Agent's progress (SpecProgress)            *)
(***************************************************************************)

Completed(t) == InList(t, task_progress.completed_tasks)
Failed(t)    == InList(t, task_progress.failed_tasks)

\* C1: after every update_exploration_progress call no task is in both
\* completed_tasks and failed_tasks, and a task that is in completed_tasks
\* stays there and stays out of failed_tasks whatever is called next.
C1_CompletedExcludesFailed ==
    /\ [](\A t \in Tasks : ~(Completed(t) /\ Failed(t)))
    /\ [][\A t \in Tasks :
              Completed(t) =>
                  /\ InList(t, task_progress'.completed_tasks)
                  /\ ~InList(t, task_progress'.failed_tasks)]_vars

\* A failure was reported for a task that was already completed.
C1_Witness ==
    /\ progress_call.op = "update_exploration_progress"
    /\ ~progress_call.success
    /\ progress_call.was_completed
    /\ Completed(progress_call.task)

\* C2: a success reported for a task that was in failed_tasks leaves it in
\* completed_tasks and out of failed_tasks.
C2_CompletionSupersedesFailure ==
    (/\ progress_call.op = "update_exploration_progress"
     /\ progress_call.success
     /\ progress_call.was_failed)
    => /\ Completed(progress_call.task)
       /\ ~Failed(progress_call.task)

\* A success was reported for a task that was in failed_tasks.
C2_Witness ==
    /\ progress_call.op = "update_exploration_progress"
    /\ progress_call.success
    /\ progress_call.was_failed
    /\ Completed(progress_call.task)

(***************************************************************************)
(* Properties of the Skill Manager (SpecSkill, SpecFilledSkill)            *)
(***************************************************************************)

\* Number of documents of the dataset named name.
DocsNamed(name) == Cardinality({i \in 1..Len(documents) : documents[i].name = name})

AddCalled   == skill_call.op = "add_new_skill"
AddReturned == AddCalled /\ skill_call.kind = "returned"

\* C3: after every add_new_skill call that returns normally the dataset holds
\* as many documents as the local skill dictionary has keys.
C3_DocumentsMatchSkills ==
    AddReturned => Len(documents) = Cardinality(DOMAIN skills)

\* C4: after every add_new_skill call every name of the local skill
\* dictionary has its code file and its description file on disk.
C4_EverySkillHasFiles ==
    AddCalled =>
        \A name \in DOMAIN skills :
            /\ PyFile(name) \in ListDir(code_dir)
            /\ TxtFile(name) \in ListDir(description_dir)

\* Largest version number the properties look at.
MaxVersion == 6

\* C5: an add_new_skill call for a name already in the dictionary that
\* stores its files writes exactly one new code file, nameVk, where k >= 2
\* is the smallest version whose file is not on disk, so that the versions on
\* disk of the name are name, nameV2, ..., nameVk without a gap (and the
\* description goes to nameVk.txt).
C5_StoredUnderSmallestFreeVersion ==
    [][(/\ skill_call'.op = "add_new_skill"
        /\ skill_call'.stored
        /\ skill_call'.existed)
       => \E k \in 2..MaxVersion :
            LET name == skill_call'.program_name
                file == PyFile(VersionedName(name, k))
            IN  /\ file \notin ListDir(code_dir)
                /\ ListDir(code_dir') = ListDir(code_dir) \cup {file}
                /\ \A j \in 2..(k - 1) :
                       PyFile(VersionedName(name, j)) \in ListDir(code_dir)
                /\ PyFile(name) \in ListDir(code_dir')
                /\ ListDir(description_dir') =
                       ListDir(description_dir) \cup {TxtFile(VersionedName(name, k))}
      ]_vars

\* C6: after a second add_new_skill of a name, to which the LLM and the
\* dataset answered without an error, the dictionary maps the name to the
\* new code, name.py and nameV2.py are on disk and the dataset holds exactly
\* one document of that name.
C6_ReAddKeepsOneDocument ==
    (/\ AddCalled
     /\ skill_call.existed
     /\ skill_call.exc # "ValueError")
    => LET name == skill_call.program_name
       IN  /\ skill_call.kind = "returned"
           /\ name \in DOMAIN skills
           /\ skills[name].code = skill_call.program_code
           /\ PyFile(name) \in ListDir(code_dir)
           /\ PyFile(VersionedName(name, 2)) \in ListDir(code_dir)
           /\ DocsNamed(name) = 1

(***************************************************************************)
(* Properties of the Action Agent (SpecAction)                             *)
(***************************************************************************)

\* Number of async function definitions of code that are named name.
AsyncNamed(code, name) ==
    Cardinality({i \in 1..Len(code) :
                    code[i].type = "AsyncFunction" /\ code[i].name = name})
    + Cardinality({i \in 1..Len(NestedOf(code)) :
                    /\ NestedOf(code)[i].type = "AsyncFunction"
                    /\ NestedOf(code)[i].name = name})

\* C7: whatever process_ai_message returns without raising is a generated
\* program: its program_code parses, holds exactly one async function named
\* program_name, and its exec_code is "await <program_name>()".
C7_ReturnsGeneratedProgram ==
    (action_call.op = "process_ai_message" /\ action_call.kind = "returned")
    => /\ action_call.result.kind = "dict"
       /\ Parses(action_call.result.program_code)
       /\ AsyncNamed(action_call.result.program_code,
                     action_call.result.program_name) = 1
       /\ action_call.result.exec_code =
              <<"await ", action_call.result.program_name, "()">>

\* C8: a failing generate_code or process_ai_message raises, and only after
\* max_retries attempts.
C8_FailureRaisesAfterMaxRetries ==
    (/\ action_call.op \in {"generate_code", "process_ai_message"}
     /\ action_call.failed)
    => /\ action_call.kind = "raised"
       /\ action_call.attempts = ActionMaxRetries

(***************************************************************************)
(* Properties of the Sandbox Runner (SpecSandbox)                          *)
(***************************************************************************)

StepReturned == env_call.op = "step" /\ env_call.kind = "returned"

\* C9: a step that returns gives reward +1 exactly when the return code is 0
\* and reward -1 in every other case.
C9_RewardFollowsReturnCode ==
    StepReturned =>
        /\ env_call.reward = 1 <=> env_call.state.return_code = 0
        /\ env_call.state.return_code # 0 => env_call.reward = -1

\* A step returned a non-zero return code of a child that exited.
C9_Witness ==
    /\ StepReturned
    /\ env_call.state.return_code = 1
    /\ env_call.reward = -1

\* C10: step never raises, in whatever state the sandbox is.
C10_StepNeverRaises ==
    env_call.op = "step" => env_call.kind = "returned"

\* C11: a step whose child runs past the timeout returns normally with an
\* empty output, return code -1 and reward -1, and the step is appended to
\* the execution log.
C11_TimeoutReturnsNormally ==
    [][\A code \in Codes :
          (\E leaves \in Leaves :
               /\ has_reset
               /\ TempDirExists
               /\ EnvStep(code, [kind |-> "timeout"], leaves)) =>
              /\ env_call'.kind = "returned"
              /\ env_call'.state.output = ""
              /\ env_call'.state.return_code = -1
              /\ env_call'.reward = -1
              /\ Len(execution_log') = Len(execution_log) + 1
              /\ execution_log'[Len(execution_log')].code = code
              /\ execution_log'[Len(execution_log')].return_code = -1
              /\ execution_log'[Len(execution_log')].output = ""]_vars

\* A timed-out step was the second step since the reset and is in the log.
C11_Witness ==
    /\ env_call.op = "step"
    /\ env_call.kind = "returned"
    /\ env_call.state.error = TimeoutMessage
    /\ Len(execution_log) = 2
    /\ execution_log[2].error = TimeoutMessage

\* C12: every step that runs its script since the last reset adds exactly
\* one entry, with the step's code, at the end of the execution log, and
\* leaves the earlier entries as they were; reset empties the log.
C12_LogHoldsEveryStep ==
    [][/\ \A code \in Codes, run \in ChildRuns, leaves \in Leaves :
             (has_reset /\ EnvStep(code, run, leaves)) =>
                 /\ Len(execution_log') = Len(execution_log) + 1
                 /\ SubSeq(execution_log', 1, Len(execution_log)) = execution_log
                 /\ execution_log'[Len(execution_log')].code = code
       /\ (\E still_linked \in BOOLEAN : EnvReset(still_linked))
              => execution_log' = << >>]_vars

(***************************************************************************)
(* Properties of the Critic Agent (SpecCritic)                             *)
(***************************************************************************)

CheckEnded == critic_call.op = "check_task_success"

\* A step in which a call runs from its first line to its end, and the
\* call before it was for the same task and code.
SameCallAgain ==
    /\ CheckEnded
    /\ critic_waiting' = critic_waiting
    /\ critic_call'.task = critic_call.task
    /\ critic_call'.code = critic_call.code

\* C13 as stated: of any two consecutive check_task_success calls with the
\* same task and code that both return, the second returns the success and
\* critique of the first, whatever the states and the answers.
C13_SameTaskAndCodeSameVerdict ==
    [][(/\ SameCallAgain
        /\ critic_call.result.kind = "returned"
        /\ critic_call'.result.kind = "returned") =>
           /\ critic_call'.result.success = critic_call.result.success
           /\ critic_call'.result.critique = critic_call.result.critique
      ]_vars

\* C13, amended: in auto mode, a call that returned a verdict taken from the
\* LLM or from the cache is followed, for the same task and code, by a call
\* that returns the same success and critique without asking the LLM,
\* whatever its state argument and whatever the LLM would answer; no call
\* that begins right after it for that task and code waits for the LLM.
C13_CachedVerdictIsReturned ==
    [][(/\ critic_mode = "auto"
        /\ CheckEnded
        /\ critic_call.result.kind = "returned"
        /\ critic_call.result.source \in {"llm", "cache"}) =>
           /\ \A call \in BagToSet(critic_waiting') :
                  (call.task = critic_call.task /\ call.code = critic_call.code) =>
                      /\ BagIn(call, critic_waiting)
                      /\ CopiesIn(call, critic_waiting') <= CopiesIn(call, critic_waiting)
           /\ SameCallAgain =>
                  /\ critic_call'.result.kind = "returned"
                  /\ critic_call'.result.source = "cache"
                  /\ critic_call'.result.llm_calls = 0
                  /\ critic_call'.result.success = critic_call.result.success
                  /\ critic_call'.result.critique = critic_call.result.critique
      ]_vars

\* A call in auto mode that began right after a call for the same task and
\* code had returned the LLM's verdict was answered from a full cache, while
\* another call was waiting for the LLM.
C13_Witness ==
    /\ critic_mode = "auto"
    /\ CheckEnded
    /\ critic_call.follows
    /\ critic_call.result.kind = "returned"
    /\ critic_call.result.source = "cache"
    /\ Len(critic_cache) = CriticCacheSize
    /\ critic_waiting # EmptyBag

\* C14: every check_task_success call returns; the retry counter decreases
\* from each attempt to the next and at most max_retries + 1 attempts are
\* made.
C14_CheckReturnsWithinRetries ==
    CheckEnded =>
        LET r == critic_call.result
        IN  /\ r.kind = "returned"
            /\ \A i \in 1..(Len(r.retries) - 1) : r.retries[i + 1] < r.retries[i]
            /\ Len(r.retries) <= (IF r.retries[1] > 0 THEN r.retries[1] ELSE 0) + 1

(***************************************************************************)
(* Properties of task proposal (SpecProposal)                              *)
(***************************************************************************)

ProposeEnded == propose_call.op = "propose_next_task"

\* C15: propose_next_task makes at most max_retries proposal attempts; every
\* attempt before the last one made has failed; it returns the next_task of
\* the first attempt that succeeds, and it raises exactly when max_retries
\* attempts have failed.
C15_ProposalAttemptsBounded ==
    ProposeEnded =>
        LET r == propose_call.result
            limit == IF EffectiveRetries(propose_call.max_retries) > 0
                     THEN EffectiveRetries(propose_call.max_retries) ELSE 0
            failed(i) == propose_call.answers[i].kind # "task"
        IN  /\ r.attempts <= limit
            /\ r.kind = "returned" =>
                   /\ r.attempts >= 1
                   /\ ~failed(r.attempts)
                   /\ r.next_task = propose_call.answers[r.attempts].next_task
                   /\ \A i \in 1..(r.attempts - 1) : failed(i)
            /\ r.kind = "raised" =>
                   /\ r.attempts = limit
                   /\ \A i \in 1..limit : failed(i)
            /\ (\A i \in 1..limit : failed(i)) => r.kind = "raised"

\* A call raised after all of its three attempts failed, each in another way.
C15_Witness ==
    /\ ProposeEnded
    /\ propose_call.result.kind = "raised"
    /\ propose_call.result.attempts = CurriculumMaxRetries
    /\ propose_call.answers[1].kind = "error"
    /\ propose_call.answers[2].kind = "bad_json"
    /\ propose_call.answers[3].kind = "no_next_task"

(***************************************************************************)
(* Properties of the skill library as it is read (SpecLibrary)             *)
(***************************************************************************)

Retrieved == store_call.op = "retrieve_skills"

\* The query is a case-insensitive substring of the name.
QueryMatches(query, name) ==
    \E q \in {Lower(query)}, n \in {Lower(name)} : IsInfix(q, n)

\* The dictionary skills.json holds ({} while the file does not exist): the
\* skills the add_new_skill calls that returned have stored.
PersistedSkills == IF skills_json.exists THEN skills_json.data ELSE EmptyDict

\* A retrieval has ended while no call of the Skill Manager is in flight, and
\* the listing it read is the dataset's first page as it is now: it returned
\* what a retrieval returns that is made after every add_new_skill call has
\* ended. (retrieve_skills reads the listing, the skill cache and self.skills
\* and changes nothing.)
RetrievedAfterEveryAdd ==
    /\ Retrieved
    /\ skill_waiting = EmptyBag
    /\ store_call.data = ListDocuments(documents, 1, PageLimit)

\* C21: the add_new_skill calls have ended before the retrieval is made, and
\* every skill an earlier add_new_skill call stored under a name the query
\* matches is among the skills the retrieval returns.
C21_RetrievalSeesEveryStoredSkill ==
    RetrievedAfterEveryAdd =>
        \A name \in PersistedNames :
            QueryMatches(store_call.query, name) =>
                \E i \in 1..Len(store_call.result) :
                    /\ store_call.matched_names[i] = name
                    /\ store_call.result[i] = PersistedSkills[name].code

\* The documents of the whole dataset that the query matches, in the
\* dataset's order.
AllMatching(query) ==
    SelectSeq(documents, LAMBDA d : QueryMatches(query, d.name))

\* C26: retrieve_skills(query) returns at most retrieval_top_k elements, one
\* for each of the first documents of the dataset whose name contains the
\* query as a case-insensitive substring, in the dataset's order, and every
\* element is the code of the skill its document names.
C26_RetrievalReturnsMatchingCode ==
    Retrieved =>
        \A matching \in {AllMatching(store_call.query)} :
            /\ Len(store_call.result) <= RetrievalTopK
            /\ Len(store_call.result) =
                   (IF Len(matching) < RetrievalTopK THEN Len(matching)
                    ELSE RetrievalTopK)
            /\ \A i \in 1..Len(store_call.result) :
                   /\ store_call.matched_names[i] = matching[i].name
                   /\ matching[i].name \in DOMAIN skills
                   /\ store_call.result[i] = skills[matching[i].name].code

\* C27: get_skill(name) returns what the local dictionary holds under name
\* (None if it holds nothing), and list_skills() returns the dictionary's keys.
C27_GetSkillReadsDictionary ==
    /\ store_call.op = "get_skill" =>
           store_call.result = SkillsGet(skills, store_call.skill_name)
    /\ store_call.op = "list_skills" => store_call.result = DOMAIN skills

\* C28: no add_new_skill call, returning or raising, takes a name out of
\* the local skill dictionary at any of its steps.
C28_DictionaryNeverLosesAName ==
    [][DOMAIN skills \subseteq DOMAIN skills']_vars

\* C29: after an add_new_skill call that raised, the dataset holds as many
\* documents as the local skill dictionary has keys, and skills.json holds
\* the dictionary that is in memory.
C29_FailedAddKeepsInvariants ==
    (AddCalled /\ skill_call.kind = "raised") =>
        /\ Len(documents) = Cardinality(DOMAIN skills)
        /\ PersistedSkills = skills

(***************************************************************************)
(* Properties of the persisted progress (SpecProgressResume)               *)
(***************************************************************************)

\* The fields of TaskProgress the round trip is to preserve.
ProgressFields ==
    {"completed_tasks", "failed_tasks", "iteration_count", "success_count",
     "failure_count", "last_updated"}

\* C25: for the TaskProgress the Curriculum Agent holds and persists,
\* from_dict(to_dict(p)) has the same completed_tasks, failed_tasks,
\* iteration_count, success_count, failure_count and last_updated as p.
C25_RoundTripKeepsSixFields ==
    \A p \in {task_progress} :
        \A q \in {ProgressFromDict(ProgressToDict(p))} :
            \A f \in ProgressFields :
                /\ f \in DOMAIN p
                /\ f \in DOMAIN q
                /\ q[f] = p[f]

\* What the round trip does keep: the three fields the class has.
C25_RoundTripKeepsThreeFields ==
    ProgressFromDict(ProgressToDict(task_progress)) = task_progress

(***************************************************************************)
(* Properties of the caches (SpecCache)                                    *)
(***************************************************************************)

\* The entries of the cache before the last call.
EntriesBefore == {cache_call.before[i] : i \in 1..Len(cache_call.before)}

\* C34: an add on a full SkillCache, ActionCache or CriticCache evicts a key
\* of minimum usage count and, among the keys of that usage count, the one
\* used longest ago.
C34_EvictsLeastUsedThenOldest ==
    (/\ cache_call.op = "add"
     /\ cache_call.kind # "qa"
     /\ cache_call.evicted # None) =>
        \A e \in EntriesBefore :
            /\ cache_call.evicted.usage <= e.usage
            /\ e.usage = cache_call.evicted.usage =>
                   cache_call.evicted.last_used <= e.last_used

\* The part of C34 the code keeps: the evicted key has minimum usage count.
C34_EvictsLeastUsed ==
    (cache_call.op = "add" /\ cache_call.evicted # None) =>
        \A e \in EntriesBefore : cache_call.evicted.usage <= e.usage

\* C35: a cache never holds more entries than the configured size, be it
\* started from persisted entries or not.
C35_CacheWithinConfiguredSize == Len(cache_entries) <= CacheSize

(***************************************************************************)
(* Properties of the task extraction (SpecExtraction)                      *)
(***************************************************************************)

\* The first answer of the last propose_next_task call holds a JSON document
\* with a next_task field, in any of the three shapes.
FirstAnswerNamesTask ==
    /\ propose_call.op = "propose_next_task"
    /\ EffectiveRetries(propose_call.max_retries) > 0
    /\ propose_call.texts[1].kind = "text"
    /\ propose_call.texts[1].body.kind = "task"

\* C36: for an answer that is raw JSON, JSON in a ```json fence or JSON with
\* prose around it, and that has a next_task field, propose_next_task returns
\* that next_task from the first attempt.
C36_TaskExtractedFromAnyShape ==
    FirstAnswerNamesTask =>
        /\ propose_call.result.kind = "returned"
        /\ propose_call.result.next_task = propose_call.texts[1].body.next_task
        /\ propose_call.result.attempts = 1

\* The shape the code does accept: the ```json fence.
C36_TaskExtractedFromFence ==
    (FirstAnswerNamesTask /\ propose_call.texts[1].shape = "fenced") =>
        /\ propose_call.result.kind = "returned"
        /\ propose_call.result.next_task = propose_call.texts[1].body.next_task
        /\ propose_call.result.attempts = 1

(***************************************************************************)
(* Properties of the progress counters (SpecCountedProgress)               *)
(***************************************************************************)

\* C37: after any add_completed_task and add_failed_task calls on an empty
\* TaskProgress, success_count is the number of tasks in completed_tasks and
\* failure_count the number of tasks in failed_tasks.
C37_CountersAgreeWithSets ==
    /\ task_progress.success_count = Len(task_progress.completed_tasks)
    /\ task_progress.failure_count = Len(task_progress.failed_tasks)

\* The half of C37 the code keeps.
C37_SuccessCountAgrees ==
    task_progress.success_count = Len(task_progress.completed_tasks)

(***************************************************************************)
(* Properties of the critic's cache key (SpecCritic)                       *)
(***************************************************************************)

\* The last check_task_success call returned a verdict from the cache.
CacheHit ==
    /\ critic_call.op = "check_task_success"
    /\ critic_call.result.kind = "returned"
    /\ critic_call.result.source = "cache"

\* C38: a verdict returned from the cache was cached for the same task and
\* code: calls with different (task, code) pairs never share a cache entry.
C38_CachedVerdictOfSamePair ==
    CacheHit =>
        \A i \in 1..Len(critic_cache) :
            critic_cache[i].key = CacheKey(critic_call.task, critic_call.code) =>
                critic_cache[i].value.given_for = <<critic_call.task, critic_call.code>>

(***************************************************************************)
(* Properties of the skill files (SpecFilledSkill)                         *)
(***************************************************************************)

\* C39: no add_new_skill call overwrites a file on disk: the code file and
\* the description file a storing call writes were not on disk before it,
\* and every file that was on disk, whichever skill name or version it was
\* written for, is there afterwards with the text it had.
C39_NoSkillFileOverwritten ==
    [][(skill_call'.op = "add_new_skill")
       => /\ \A f \in ListDir(code_dir) :
                 f \in ListDir(code_dir') /\ code_dir'[f] = code_dir[f]
          /\ \A f \in ListDir(description_dir) :
                 /\ f \in ListDir(description_dir')
                 /\ description_dir'[f] = description_dir[f]
          /\ skill_call'.stored =>
                 /\ PyFile(skill_call'.dumped) \notin ListDir(code_dir)
                 /\ TxtFile(skill_call'.dumped) \notin ListDir(description_dir)
                 /\ PyFile(skill_call'.dumped) \in ListDir(code_dir')
                 /\ TxtFile(skill_call'.dumped) \in ListDir(description_dir')
      ]_vars

====
